---- MODULE Spec2Model ----
(***************************************************************************)
(* Task-to-worker assignment optimizers of the scheduler:                  *)
(*   - the generational genetic algorithm (ga_algorithm/ga.js,             *)
(*     populationGA.js, the Chromosome class), specification SpecGA;       *)
(*   - the four-leader swarm driver runChoaAlgorithm, specification        *)
(*     SpecChoa.                                                           *)
(* Math.random() is an input: every draw is taken from RandomDraws, a set  *)
(* of tenths.  The GA fitness 1/(maxLoad-minLoad+1) is kept as an exact    *)
(* fraction <<numerator, denominator>>; the swarm fitness is an IEEE 754   *)
(* double, kept bit for bit as a two-limb integer, and its sums round as   *)
(* the doubles of the program do.                                          *)
(***************************************************************************)
EXTENDS Integers, Sequences, FiniteSets, TLC

\* ------------------------------------------------------------------------
\* Bounds of the explored inputs
\* ------------------------------------------------------------------------
MaxTasks == 3        \* taskCount of a GA run ranges over 1..MaxTasks
MaxWorkers == 2      \* workerCount of a GA run ranges over 1..MaxWorkers
MaxPop == 3          \* populationSize of a GA run ranges over 1..MaxPop
MaxIter == 2         \* maxIterations of a GA run ranges over 0..MaxIter
MaxGenes == 6        \* the initial population of a GA run holds at most MaxGenes genes
MaxChimps == 4       \* populationSize of a swarm run ranges over 1..MaxChimps
MaxChimpGenes == 12  \* the initial population of a swarm run holds at most MaxChimpGenes genes
MaxRounds == 1       \* iterations of a swarm run ranges over 0..MaxRounds
MaxLength == 2       \* a Chromosome under test has 1..MaxLength genes
MaxCalls == 3        \* calls made on the Chromosome objects after construction
MaxRequests == 3     \* /schedule requests the broker receives
MaxResets == 1       \* /reset requests the broker receives
MaxReports == 1      \* entries the CPU usage log grows to
BatchSize == 2       \* tasks in the broker's task file
MaxMismatch == 2     \* a swarm run whose task list is not of length taskCount
                     \* has a population of at most MaxMismatch chimps
MaxBudget == 14      \* iterations of the coefficient schedule ranges over 0..MaxBudget
MaxJobs == 4         \* a fitness measurement has 1..MaxJobs tasks
MaxRunGenes == 4     \* a run carried on to its end has at most MaxRunGenes genes
MaxCallers == 2      \* geneticAlgorithm is handed 1..MaxCallers individuals

\* ------------------------------------------------------------------------
\* The random source
\* ------------------------------------------------------------------------
\* A draw k stands for Math.random() = k / RandDen.
RandDen == 10
RandomDraws == {0, 9}

\* Math.floor(Math.random() * n) for the draw k.
RandomIndex(k, n) == (k * n) \div RandDen

\* ------------------------------------------------------------------------
\* Fractions (GA fitness values)
\* ------------------------------------------------------------------------
NegInfinity == <<-1, 0>>       \* -Infinity
ZeroFitness == <<0, 1>>        \* 0.0, the fitness of a new Chromosome
FLt(a, b) == a[1] * b[2] < b[1] * a[2]
FGt(a, b) == FLt(b, a)
FLeq(a, b) == ~FLt(b, a)
FEq(a, b) == ~FLt(a, b) /\ ~FLt(b, a)

\* ------------------------------------------------------------------------
\* Chromosome (genes and fitness; id and velocity take no part in the search)
\* ------------------------------------------------------------------------
Zeros(n) == [i \in 1..n |-> 0]

\* new Chromosome(chromosomeLength)
NewChromosome(len) == [genes |-> Zeros(len), fitness |-> ZeroFitness]

\* Chromosome.withIdAndGenes(id, genes)
WithIdAndGenes(genes) == [genes |-> genes, fitness |-> ZeroFitness]

\* Chromosome.clone(): a copy of the genes and of the fitness
Clone(c) == [WithIdAndGenes(c.genes) EXCEPT !.fitness = c.fitness]

\* ------------------------------------------------------------------------
\* PopulationGA
\* ------------------------------------------------------------------------
PartitionSize == 9
MinPosition(dci) == (dci - 1) * PartitionSize
MaxPosition(dci) == (dci * PartitionSize) - 1

\* generateRandomChromosome(): draws[j] is the j-th Math.random()
GenerateRandomChromosome(draws, dci) ==
    [j \in 1..Len(draws) |->
        MinPosition(dci) + RandomIndex(draws[j], MaxPosition(dci) - MinPosition(dci) + 1)]

\* generateOppositeChromosome(genes)
GenerateOppositeChromosome(genes, dci) ==
    [j \in 1..Len(genes) |-> MaxPosition(dci) + MinPosition(dci) - genes[j]]

\* Array.prototype.sort is stable: x goes behind every element the comparator
\* c2.getFitness() - c1.getFitness() does not put behind it.
RECURSIVE InsertByFitness(_, _)
InsertByFitness(sorted, x) ==
    IF sorted = <<>> THEN <<x>>
    ELSE IF FGt(x.fitness, Head(sorted).fitness) THEN <<x>> \o sorted
    ELSE <<Head(sorted)>> \o InsertByFitness(Tail(sorted), x)

RECURSIVE SortFrom(_, _)
SortFrom(sorted, rest) ==
    IF rest = <<>> THEN sorted
    ELSE SortFrom(InsertByFitness(sorted, Head(rest)), Tail(rest))

\* sortByFitness(): descending order of fitness
SortByFitness(cs) == SortFrom(<<>>, cs)

\* ------------------------------------------------------------------------
\* GeneticAlgorithm
\* ------------------------------------------------------------------------
CrossoverProbability == 8      \* 0.8, in units of 1 / RandDen
MutationProbability == 1       \* 0.1, in units of 1 / RandDen

SetMax(S) == CHOOSE x \in S : \A y \in S : y <= x
SetMin(S) == CHOOSE x \in S : \A y \in S : x <= y

\* counts[gene]: the number of tasks given to each worker that has a task
Counts(genes) ==
    [w \in {genes[i] : i \in 1..Len(genes)} |->
        Cardinality({i \in 1..Len(genes) : genes[i] = w})]

\* calcFitness with the loads of all the workers of the partition, the ones
\* without a task counted with load 0.
CalcFitnessAllWorkers(genes) ==
    LET loads == {Cardinality({i \in 1..Len(genes) : genes[i] = w}) :
                     w \in 0..(PartitionSize - 1)}
    IN  <<1, SetMax(loads) - SetMin(loads) + 1>>

\* calcFitness(chromosome, dataCenterIterator)
CalcFitness(genes) ==
    LET counts == Counts(genes)
        loads == {counts[w] : w \in DOMAIN counts}
    IN  <<1, SetMax(loads) - SetMin(loads) + 1>>

\* computeFitness(population, dataCenterIterator)
ComputeFitness(cs) ==
    [i \in 1..Len(cs) |-> [cs[i] EXCEPT !.fitness = CalcFitness(cs[i].genes)]]

\* One tournament of selectParents: d is the triple of draws.
RECURSIVE TournamentFrom(_, _, _, _)
TournamentFrom(cs, d, j, best) ==
    IF j > 3 THEN best
    ELSE LET candidate == cs[RandomIndex(d[j], Len(cs)) + 1]
         IN  IF FGt(candidate.fitness, best.fitness)
             THEN TournamentFrom(cs, d, j + 1, candidate)
             ELSE TournamentFrom(cs, d, j + 1, best)

\* A tournament that keeps its first candidate whatever the other two are.
TournamentFirstDraw(cs, d) == cs[RandomIndex(d[1], Len(cs)) + 1]

\* One tournament of selectParents over the draws d
Tournament(cs, d) ==
    TournamentFrom(cs, d, 1, [genes |-> <<>>, fitness |-> NegInfinity])

\* selectParents(population)
SelectParentsOf(cs, d1, d2) == <<Tournament(cs, d1), Tournament(cs, d2)>>

\* The candidates whose fitness one tournament of selectParents reads.
Candidates(cs, d) == {cs[RandomIndex(d[j], Len(cs)) + 1] : j \in 1..3}

\* The fitness of c is the one calcFitness computes from its genes.
Fresh(c) == c.fitness = CalcFitness(c.genes)

\* The opposite chromosome applyOppositionBasedLearning builds for c.
OppositeChromosome(c, dci) == WithIdAndGenes(GenerateOppositeChromosome(c.genes, dci))

\* PopulationGA.applyOppositionBasedLearning()
ApplyOppositionBasedLearning(cs, dci) ==
    [i \in 1..Len(cs) |->
        IF FGt(OppositeChromosome(cs[i], dci).fitness, cs[i].fitness)
        THEN OppositeChromosome(cs[i], dci)
        ELSE cs[i]]

\* A crossover whose second offspring takes the same genes as the first.
CrossoverSameTwice(parent1, parent2, dProb, dPoint) ==
    LET len == Len(parent1.genes)
        crossoverPoint == RandomIndex(dPoint, len)
        mixed == [NewChromosome(len) EXCEPT !.genes = [i \in 1..len |->
                    IF dProb < CrossoverProbability /\ i - 1 >= crossoverPoint
                    THEN parent2.genes[i] ELSE parent1.genes[i]]]
    IN  <<mixed, mixed>>

\* crossover(parent1, parent2): dProb and dPoint are the two draws
CrossoverOf(parent1, parent2, dProb, dPoint) ==
    LET len == Len(parent1.genes)
        crossoverPoint == RandomIndex(dPoint, len)
        o0 == NewChromosome(len)
        o1 == NewChromosome(Len(parent2.genes))
    IN  IF dProb < CrossoverProbability
        THEN << [o0 EXCEPT !.genes = [i \in 1..len |->
                    IF i - 1 < crossoverPoint THEN parent1.genes[i] ELSE parent2.genes[i]]],
                [o1 EXCEPT !.genes = [i \in 1..len |->
                    IF i - 1 < crossoverPoint THEN parent2.genes[i] ELSE parent1.genes[i]]] >>
        ELSE << [o0 EXCEPT !.genes = [i \in 1..len |-> parent1.genes[i]]],
                [o1 EXCEPT !.genes = [i \in 1..len |-> parent2.genes[i]]] >>

\* The value mutate writes into a gene for the draw k.
MutationValue(k, dci) ==
    MinPosition(dci) + RandomIndex(k, MaxPosition(dci) - MinPosition(dci) + 1)

\* The draws mutate takes for one gene, <<probability draw, value draw>>: the
\* value is drawn only when the probability draw passes (0 stands for "not drawn").
MutationDraws ==
    {d \in RandomDraws \X RandomDraws : d[1] >= MutationProbability => d[2] = 0}

\* mutate(offspring, dataCenterIterator): draws[i] are the draws of gene i
MutateOf(c, draws, dci) ==
    [c EXCEPT !.genes = [i \in 1..Len(c.genes) |->
        IF draws[i][1] < MutationProbability THEN MutationValue(draws[i][2], dci)
        ELSE c.genes[i]]]

\* UpdateGlobalBest with the comparison lost: the generation's last chromosome
\* is recorded whatever its fitness.
UpdateGlobalBestUnguarded(bestFitness, bestPosition, sorted) ==
    <<sorted[Len(sorted)].fitness, sorted[Len(sorted)].genes>>

\* The update of the global best at the end of a generation:
\* <<globalBestFitnesses[dcIndex], globalBestPositions[dcIndex]>>
UpdateGlobalBest(bestFitness, bestPosition, sorted) ==
    IF FGt(sorted[1].fitness, bestFitness)
    THEN <<sorted[1].fitness, sorted[1].genes>>
    ELSE <<bestFitness, bestPosition>>

\* Elite taken from the wrong end of the sorted population.
EliteFromTail(sorted) == Clone(sorted[Len(sorted)])

\* The chromosome runGA copies unchanged into the next generation.
Elite(sorted) == Clone(sorted[1])

\* ------------------------------------------------------------------------
\* Swarm driver (runChoaAlgorithm): numbers
\* ------------------------------------------------------------------------
\* A fitness, a load or a cost is an IEEE 754 double d with 0 <= d < 2048,
\* written <<hi, lo>> for d = (hi * Limb + lo) * 2^-49 with 0 <= lo < Limb.
\* Every double in [8, 2048) is of this form, and so is 0.
Limb == 1073741824
DZero == <<0, 0>>

\* Infinity and -Infinity: above and below every finite number.  NaN and
\* Undefined stand for the two non-numbers a gene or a worker key can be.
Infinity == <<2000000000, 0>>
MinusInfinity == <<-1, 0>>
NaN == -1000000
Undefined == -2000000

\* a < b and a <= b on doubles
DLt(a, b) == a[1] < b[1] \/ (a[1] = b[1] /\ a[2] < b[2])
DLeq(a, b) == ~DLt(b, a)

\* The exact sum of two doubles (not rounded).
DSum(a, b) == <<a[1] + b[1] + ((a[2] + b[2]) \div Limb), (a[2] + b[2]) % Limb>>

\* The spacing of the doubles around a, in units of 2^-49: 2^(e - 3) for
\* 2^e <= a < 2^(e + 1) (53 significant bits).
Ulp(a) ==
    IF a[1] >= 536870912 THEN 128
    ELSE IF a[1] >= 268435456 THEN 64
    ELSE IF a[1] >= 134217728 THEN 32
    ELSE IF a[1] >= 67108864 THEN 16
    ELSE IF a[1] >= 33554432 THEN 8
    ELSE IF a[1] >= 16777216 THEN 4
    ELSE IF a[1] >= 8388608 THEN 2
    ELSE 1

\* Round to nearest multiple of u units, ties to even (u a power of two).
DRoundTo(a, u) ==
    LET r == a[2] % u
        down == <<a[1], a[2] - r>>
        odd == ((a[2] - r) \div u) % 2 = 1
    IN  IF 2 * r > u \/ (2 * r = u /\ odd) THEN DSum(down, <<0, u>>) ELSE down

\* a + b of two doubles: the exact sum rounded to the nearest double (the
\* operands and the exact sum are computed once)
DAdd(a, b) ==
    CHOOSE rounded \in {DRoundTo(sum, Ulp(sum)) : sum \in {DSum(x, y) : x \in {a}, y \in {b}}} : TRUE

\* a / 2 and a / 2^k (exact for the numbers they are applied to)
DHalf(a) == <<a[1] \div 2, (a[1] % 2) * (Limb \div 2) + a[2] \div 2>>

RECURSIVE DHalfN(_, _)
DHalfN(a, k) == IF k = 0 THEN a ELSE DHalfN(DHalf(a), k - 1)

\* n * a for a natural number n (exact, not rounded)
RECURSIVE DTimes(_, _)
DTimes(a, n) ==
    IF n = 0 THEN DZero
    ELSE LET h == DTimes(a, n \div 2)
         IN  IF n % 2 = 0 THEN DSum(h, h) ELSE DSum(DSum(h, h), a)

\* The double n / d for naturals n, d with 16 <= n / d < 32 and d < 32768:
\* 48 fraction bits by long division, 16 bits at a time, then rounded.
DQuot(n, d) ==
    LET r0 == n % d
        q1 == (r0 * 65536) \div d
        r1 == (r0 * 65536) % d
        q2 == (r1 * 65536) \div d
        r2 == (r1 * 65536) % d
        q3 == (r2 * 65536) \div d
        r3 == (r2 * 65536) % d
        q == <<(n \div d) * 262144 + q1 * 4 + q2 \div 16384, (q2 % 16384) * 65536 + q3>>
        up == 2 * r3 > d \/ (2 * r3 = d /\ q3 % 2 = 1)
        rounded == IF up THEN DSum(q, <<0, 1>>) ELSE q
    IN  DSum(rounded, rounded)

\* Coefficients and positions are fixed-point numbers in units of 1 / Milli.
Milli == 1000
Abs(x) == IF x < 0 THEN -x ELSE x
Mul(a, b) == (a * b) \div Milli

\* WEIGHT_TO_MIPS[task.weight] || 500
WeightToMips(weight) ==
    CASE weight = "ringan" -> 400
      [] weight = "sedang" -> 500
      [] weight = "berat" -> 600
      [] OTHER -> 500

CloudletLength == 10000
MemoryUsage == 512
BandwidthUsage == 1000
Mips == {400, 500, 600}

\* execTime = 10000 / mips, for each mips of WEIGHT_TO_MIPS and the default
ExecTimeOfMips == [m \in Mips |-> DQuot(CloudletLength, m)]

\* An execution time that ignores the weight of the task.
ExecTimeOfDefaultTier(weight) == ExecTimeOfMips[500]

\* execTime of a task of the given weight
ExecTime(weight) == ExecTimeOfMips[WeightToMips(weight)]

\* 512 * COST_PER_RAM: the literal 0.05 is the double nearest to 1/20, and
\* the product by 512 = 2^9 is exact
RamCost == DQuot(MemoryUsage, 20)

\* BANDWIDTH_USAGE * COST_PER_BW: the literal 0.1 is the double nearest to
\* 1/10, that is DQuot(256, 10) / 256; 1000 times it is 125 * DQuot(256, 10) / 32,
\* rounded to a double of [64, 128) (8 units)
BandwidthCost == DHalfN(DRoundTo(DTimes(DQuot(256, 10), BandwidthUsage \div 8), 256), 5)

\* cost = (execTime * COST_PER_MIPS) + (512 * COST_PER_RAM) + (BANDWIDTH_USAGE * COST_PER_BW)
\* with COST_PER_MIPS = 0.5: the product is the exact half
TaskCostOfMips == [m \in Mips |-> DAdd(DAdd(DHalf(ExecTimeOfMips[m]), RamCost), BandwidthCost)]
TaskCost(weight) == TaskCostOfMips[WeightToMips(weight)]

\* individual.chromosome[i] for the 0-based index i - 1
GeneAt(chromosome, i) == IF i \in 1..Len(chromosome) THEN chromosome[i] ELSE Undefined

\* workerLoad[w] once the tasks 1..i have been added
RECURSIVE WorkerLoad(_, _, _, _)
WorkerLoad(chromosome, taskList, w, i) ==
    IF i = 0 THEN DZero
    ELSE LET before == WorkerLoad(chromosome, taskList, w, i - 1)
         IN  IF GeneAt(chromosome, i) = w THEN DAdd(before, ExecTime(taskList[i]))
             ELSE before

\* workerCost[w] once the tasks 1..i have been added
RECURSIVE WorkerCost(_, _, _, _)
WorkerCost(chromosome, taskList, w, i) ==
    IF i = 0 THEN DZero
    ELSE LET before == WorkerCost(chromosome, taskList, w, i - 1)
         IN  IF GeneAt(chromosome, i) = w THEN DAdd(before, TaskCost(taskList[i]))
             ELSE before

\* The keys of workerLoad and workerCost.
WorkerKeys(chromosome, taskList) == {GeneAt(chromosome, i) : i \in 1..Len(taskList)}

\* Object.values lists the integer keys in ascending order, then the keys
\* "NaN" and "undefined" in the order of their insertion.
KeyRank(k) == IF k >= 0 THEN k ELSE -k

\* Object.values(f).reduce((a, b) => a + b, acc) over the keys S
RECURSIVE SumOver(_, _, _)
SumOver(f, S, acc) ==
    IF S = {} THEN acc
    ELSE LET x == CHOOSE y \in S : \A z \in S : KeyRank(y) <= KeyRank(z)
         IN  SumOver(f, S \ {x}, DAdd(acc, f[x]))

\* Math.max(...values): -Infinity when there is no value
DMax(S) == IF S = {} THEN MinusInfinity
           ELSE CHOOSE x \in S : \A y \in S : DLeq(y, x)

\* makespan of calculateFitness
Makespan(chromosome, taskList) ==
    DMax({WorkerLoad(chromosome, taskList, w, Len(taskList)) :
             w \in WorkerKeys(chromosome, taskList)})

\* A totalCost that charges the bandwidth cost once for each worker in use.
TotalCostPerWorker(chromosome, taskList) ==
    LET keys == WorkerKeys(chromosome, taskList)
    IN  SumOver([w \in keys |-> BandwidthCost], keys, DZero)

\* totalCost of calculateFitness
TotalCost(chromosome, taskList) ==
    LET keys == WorkerKeys(chromosome, taskList)
    IN  SumOver([w \in keys |-> WorkerCost(chromosome, taskList, w, Len(taskList))],
                keys, DZero)

\* calculateFitness(individual, tasks): the fitness it stores and returns
\* (-Infinity + 0 for an empty task list)
CalculateFitness(chromosome, taskList) ==
    IF Makespan(chromosome, taskList) = MinusInfinity THEN MinusInfinity
    ELSE DAdd(Makespan(chromosome, taskList), TotalCost(chromosome, taskList))

\* getRandomInt(min, max) for the draw k
GetRandomInt(k, min, max) == RandomIndex(k, max - min + 1) + min

\* createIndividual(taskCount, workerCount): draws[j] is the j-th draw
CreateIndividual(draws, wc) ==
    [chromosome |-> [j \in 1..Len(draws) |-> GetRandomInt(draws[j], 0, wc - 1)],
     fitness |-> Infinity]

\* population.forEach(ind => calculateFitness(ind, tasks))
EvaluateAll(pop, taskList) ==
    [i \in 1..Len(pop) |->
        [pop[i] EXCEPT !.fitness = CalculateFitness(pop[i].chromosome, taskList)]]

\* OppositeGene with the offset of one forgotten.
OppositeGeneOffByOne(gene, wc) == wc - gene

\* applyOBL: gene => workerCount - 1 - gene
OppositeGene(gene, wc) == wc - 1 - gene

\* applyOBL: the opposite individual of one individual, evaluated
OppositeIndividual(ind, wc, taskList) ==
    LET opp == [j \in 1..Len(ind.chromosome) |-> OppositeGene(ind.chromosome[j], wc)]
    IN  [chromosome |-> opp, fitness |-> CalculateFitness(opp, taskList)]

OppositePopulation(pop, wc, taskList) ==
    [i \in 1..Len(pop) |-> OppositeIndividual(pop[i], wc, taskList)]

\* combined.sort((a, b) => a.fitness - b.fitness): stable, ascending
RECURSIVE InsertAscending(_, _)
InsertAscending(sorted, x) ==
    IF sorted = <<>> THEN <<x>>
    ELSE IF DLt(x.fitness, Head(sorted).fitness) THEN <<x>> \o sorted
    ELSE <<Head(sorted)>> \o InsertAscending(Tail(sorted), x)

RECURSIVE SortAscendingFrom(_, _)
SortAscendingFrom(sorted, rest) ==
    IF rest = <<>> THEN sorted
    ELSE CHOOSE result \in {SortAscendingFrom(next, Tail(rest)) :
                               next \in {InsertAscending(sorted, Head(rest))}} : TRUE

SortAscending(pop) == SortAscendingFrom(<<>>, pop)

\* An applyOBL that truncates the combined array without sorting it.
ApplyOBLNoSort(pop, wc, taskList) ==
    SubSeq(pop \o OppositePopulation(pop, wc, taskList), 1, Len(pop))

\* applyOBL(population, taskCount, workerCount, tasks)
ApplyOBL(pop, wc, taskList) ==
    CHOOSE kept \in {SubSeq(SortAscending(combined), 1, Len(pop)) :
                        combined \in {pop \o OppositePopulation(pop, wc, taskList)}} : TRUE

\* chaos(): ((x + 1) * 1) / 2 with x = 0.7
Chaos == ((700 + Milli) * 1) \div 2

\* floor(100 * n^(1/3))
CbrtCenti(n) == CHOOSE k \in 0..(100 * (n + 1)) :
                    k * k * k <= n * 1000000 /\ n * 1000000 < (k + 1) * (k + 1) * (k + 1)

\* Math.pow(iter, 1/3) / Math.pow(iterations, 1/3)
CbrtRatio(it, its) == (CbrtCenti(it) * Milli) \div CbrtCenti(its)

\* Math.pow(iter, 3) / Math.pow(iterations, 3), times 2
CubeRatio2(it, its) == (2 * Milli * it * it * it) \div (its * its * its)

\* updateFandCoefficients(iter, iterations)
UpdateFandCoefficients(it, its) ==
    LET cbrt == CbrtRatio(it, its)
        cube == CubeRatio2(it, its)
    IN  [f    |-> 2 * Milli - it * ((2 * Milli) \div its),
         C1G1 |-> 1950 - 2 * cbrt,
         C2G1 |-> 2 * cbrt + 500,
         C1G2 |-> 1950 - 2 * cbrt,
         C2G2 |-> cube + 500,
         C1G3 |-> 2500 - cube,
         C2G3 |-> 2 * cbrt + 500,
         C1G4 |-> 2500 - cube,
         C2G4 |-> cube + 500]

\* No coefficients yet: the value of the variable outside the main loop.
NoCoefficients ==
    [f |-> 0, C1G1 |-> 0, C2G1 |-> 0, C1G2 |-> 0, C2G2 |-> 0,
     C1G3 |-> 0, C2G3 |-> 0, C1G4 |-> 0, C2G4 |-> 0]

\* Math.random() for the draw k, in units of 1 / Milli
RandomMilli(k) == (k * Milli) \div RandDen

\* X = leaderGene - A * D of one group: k1, k2 are its two draws
GroupPosition(f, c1, c2, k1, k2, leaderGene, currentPos) ==
    LET r1 == Mul(c1, RandomMilli(k1))
        r2 == Mul(c2, RandomMilli(k2))
        A == Mul(2 * f, r1) - f
        C == 2 * r2
        D == Abs(C * leaderGene - Chaos * currentPos)
    IN  leaderGene * Milli - Mul(A, D)

\* Math.round of a fixed-point number
Round(x) == (2 * x + Milli) \div (2 * Milli)

\* ClampPosition with the upper limit off by one.
ClampPositionLoose(p, wc) ==
    IF p < 0 THEN 0 ELSE IF p > wc THEN wc ELSE p

\* Math.max(0, Math.min(workerCount - 1, newPosition))
ClampPosition(p, wc) ==
    IF p < 0 THEN 0 ELSE IF p > wc - 1 THEN wc - 1 ELSE p

\* The values X of one group over its two draws.
GroupPositions(f, c1, c2, leaderGene, currentPos) ==
    {GroupPosition(f, c1, c2, k1, k2, leaderGene, currentPos) : k1, k2 \in RandomDraws}

\* The new positions of gene j of a chimp over the eight draws.  A leader
\* without a gene j yields undefined, and the result is NaN whatever is drawn.
NewPositions(co, a, b, c, dr, currentPos, wc) ==
    IF Undefined \in {a, b, c, dr} THEN {NaN}
    ELSE LET S1 == GroupPositions(co.f, co.C1G1, co.C2G1, a, currentPos)
             S2 == GroupPositions(co.f, co.C1G2, co.C2G2, b, currentPos)
             S3 == GroupPositions(co.f, co.C1G3, co.C2G3, c, currentPos)
             S4 == GroupPositions(co.f, co.C1G4, co.C2G4, dr, currentPos)
         IN  {ClampPosition(Round((X1 + X2 + X3 + X4) \div 4), wc) :
                 X1 \in S1, X2 \in S2, X3 \in S3, X4 \in S4}

\* AcceptMove with equal fitness accepted as well.
AcceptMoveOrEqual(newFitness, oldFitness) == DLeq(newFitness, oldFitness)

\* updatePositions: newChimp.fitness < chimp.fitness
AcceptMove(newFitness, oldFitness) == DLt(newFitness, oldFitness)

\* A classification that fills the attacker slot once and never replaces it.
ClassifyFirstComer(bests, ind) ==
    IF bests.attacker.chromosome = <<>> /\ DLt(ind.fitness, bests.attacker.fitness)
    THEN [bests EXCEPT !.attacker = ind]
    ELSE bests

\* evaluateFitness: the classification of one individual
Classify(bests, ind) ==
    IF DLt(ind.fitness, bests.attacker.fitness)
    THEN [bests EXCEPT !.attacker = ind]
    ELSE IF /\ DLt(bests.attacker.fitness, ind.fitness)
            /\ DLt(ind.fitness, bests.barrier.fitness)
    THEN [bests EXCEPT !.barrier = ind]
    ELSE IF /\ DLt(bests.attacker.fitness, ind.fitness)
            /\ DLt(bests.barrier.fitness, ind.fitness)
            /\ DLt(ind.fitness, bests.chaser.fitness)
    THEN [bests EXCEPT !.chaser = ind]
    ELSE IF /\ DLt(bests.attacker.fitness, ind.fitness)
            /\ DLt(bests.barrier.fitness, ind.fitness)
            /\ DLt(bests.chaser.fitness, ind.fitness)
            /\ DLt(ind.fitness, bests.driver.fitness)
    THEN [bests EXCEPT !.driver = ind]
    ELSE bests

RECURSIVE ClassifyFrom(_, _, _)
ClassifyFrom(bests, pop, i) ==
    IF i > Len(pop) THEN bests
    ELSE CHOOSE result \in {ClassifyFrom(next, pop, i + 1) :
                               next \in {Classify(bests, ind) : ind \in {pop[i]}}} : TRUE

\* An evaluateFitness that fills a barrier slot left empty with the attacker.
EvaluateFitnessTied(pop, taskList, currentBests) ==
    CHOOSE tied \in {IF bests.barrier.chromosome = <<>>
                      THEN [bests EXCEPT !.barrier = bests.attacker]
                      ELSE bests :
                      bests \in {ClassifyFrom(currentBests, evaluated, 1) :
                                    evaluated \in {EvaluateAll(pop, taskList)}}} : TRUE

\* evaluateFitness(population, tasks, currentBests): the new leaders
EvaluateFitness(pop, taskList, currentBests) ==
    CHOOSE bests \in {ClassifyFrom(currentBests, evaluated, 1) :
                         evaluated \in {EvaluateAll(pop, taskList)}} : TRUE

\* { chromosome: [], fitness: Infinity }
Sentinel == [chromosome |-> <<>>, fitness |-> Infinity]

\* The task batch: a run is given a prefix of it.
TaskCatalogue == <<"ringan", "lainnya", "berat", "sedang">>

VARIABLES
    gaPc,                 \* position of the GA run
    gaEntry,              \* "legacy": geneticAlgorithm(population, iterations);
                          \* "direct": initPopulation + runGA + getBestVmAllocationForDatacenter
    taskCount,            \* number of tasks (chromosomeLength)
    workerCount,          \* number of workers of the scheduling problem
    populationSize,       \* PopulationGA.populationSize
    maxIterations,        \* GeneticAlgorithm.maxIterations
    chromosomes,          \* PopulationGA.chromosomes
    newPopulation,        \* runGA's newPopulation
    parents,              \* the result of selectParents
    offspring,            \* the result of crossover, then mutated in place
    iteration,            \* runGA's iteration counter
    globalBestFitness,    \* globalBestFitnesses[0]
    globalBestPosition,   \* globalBestPositions[0]
    gaResult,             \* the returned assignment vector, <<>> before the return
    maxEvaluated,         \* history: the greatest fitness calcFitness has returned so far
    bestHistory,          \* history: globalBestFitnesses[0] at the end of each generation
    originals,            \* history: the genes drawn by initializePopulation
    staleRead,            \* history: a comparison read a fitness not computed from the genes
    chPc,                 \* position of the swarm run
    tasks,                \* the task list (the weight of each task)
    iterations,           \* runChoaAlgorithm's iterations
    useOBL,               \* runChoaAlgorithm's useOBL
    population,           \* runChoaAlgorithm's population
    leaders,              \* attacker, barrier, chaser, driver
    iter,                 \* the loop counter of the main loop
    coefficients,         \* the coefficients of the current iteration
    chimp,                \* updatePositions: index of the chimp being moved
    newChromosome,        \* updatePositions: the positions proposed so far
    chResult,             \* the returned assignment vector, <<>> before the return
    previous,             \* history: the population at the start of the iteration
    oblPrimary,           \* history: the population handed to applyOBL
    oblOpposite,          \* history: the opposite individuals applyOBL built
    heapArrays,           \* the arrays allocated so far; a reference is an index
    objects,              \* the Chromosome objects under test: original and clone
                          \* (SpecLegacy: the individuals of the caller's population)
    lastCall,             \* history: the last call made on a Chromosome
    beforeCall,           \* history: heapArrays and objects before the last call
                          \* (SpecLegacy: before the call of geneticAlgorithm)
    calls,                \* number of calls made since construction
    currentIndex,         \* broker: index of the next task to dispatch
    completedTasks,       \* broker: tasks a worker has answered
    abcMapping,           \* broker: the cached assignment vector, <<>> when none
    workerSpecs,          \* broker: the worker specifications, <<>> when none
    makespanStart,        \* broker: time of the first dispatch, NullTime when none
    makespanEnd,          \* broker: time the last task completed, NullTime when none
    totalCost,            \* broker: accumulated cost, in tenths
    startTimes,           \* broker: start times reported by the workers
    finishTimes,          \* broker: finish times reported by the workers
    executionTimes,       \* broker: execution times reported by the workers
    waitingTimes,         \* broker: start time minus makespanStart, per task
    executionTimeByWorker,\* broker: execution time accumulated per worker
    cpuUsages,            \* broker: the CPU usage log
    handlers,             \* the /schedule requests: position and locals of each handler
    session,              \* history: number of /reset requests served
    optimizerRuns,        \* history: the session of each optimizer invocation
    mappingVersion,       \* history: the invocation that produced abcMapping, 0 when none
    dispatches            \* history: the tasks sent to a worker

gaVars == <<gaPc, gaEntry, taskCount, workerCount, populationSize, maxIterations,
            chromosomes, newPopulation, parents, offspring, iteration,
            globalBestFitness, globalBestPosition, gaResult, maxEvaluated,
            bestHistory, originals, staleRead>>

chVars == <<chPc, tasks, iterations, useOBL, population, leaders, iter, coefficients,
            chimp, newChromosome, chResult, previous, oblPrimary, oblOpposite>>

objVars == <<heapArrays, objects, lastCall, beforeCall, calls>>

brVars == <<currentIndex, completedTasks, abcMapping, workerSpecs, makespanStart,
            makespanEnd, totalCost, startTimes, finishTimes, executionTimes, waitingTimes,
            executionTimeByWorker, cpuUsages, handlers, session, optimizerRuns,
            mappingVersion, dispatches>>

restVars == <<objVars, brVars>>

vars == <<gaVars, chVars, restVars>>

\* No Chromosome object under test.
ObjIdle ==
    /\ heapArrays = <<>>
    /\ objects = <<>>
    /\ lastCall = <<>>
    /\ beforeCall = <<>>
    /\ calls = 0

\* The broker not started.
BrokerIdle ==
    /\ currentIndex = 0
    /\ completedTasks = 0
    /\ abcMapping = <<>>
    /\ workerSpecs = <<>>
    /\ makespanStart = 0
    /\ makespanEnd = 0
    /\ totalCost = 0
    /\ startTimes = <<>>
    /\ finishTimes = <<>>
    /\ executionTimes = <<>>
    /\ waitingTimes = <<>>
    /\ executionTimeByWorker = <<>>
    /\ cpuUsages = <<>>
    /\ handlers = <<>>
    /\ session = 0
    /\ optimizerRuns = <<>>
    /\ mappingVersion = 0
    /\ dispatches = <<>>

\* What a run of one component leaves at rest besides the other drivers.
RestIdle == ObjIdle /\ BrokerIdle

\* The swarm driver at rest (a GA run does not touch it).
ChoaIdle ==
    /\ chPc = "idle"
    /\ tasks = <<>>
    /\ iterations = 0
    /\ useOBL = FALSE
    /\ population = <<>>
    /\ leaders = [attacker |-> Sentinel, barrier |-> Sentinel,
                  chaser |-> Sentinel, driver |-> Sentinel]
    /\ iter = 0
    /\ coefficients = NoCoefficients
    /\ chimp = 0
    /\ newChromosome = <<>>
    /\ chResult = <<>>
    /\ previous = <<>>
    /\ oblPrimary = <<>>
    /\ oblOpposite = <<>>

dataCenterIterator == 1

FMaxOf(cs, start) ==
    LET best == CHOOSE i \in 1..Len(cs) : \A j \in 1..Len(cs) : FLeq(cs[j].fitness, cs[i].fitness)
    IN  IF cs = <<>> THEN start
        ELSE IF FGt(cs[best].fitness, start) THEN cs[best].fitness ELSE start

\* The GeneticAlgorithm constructor and the population handed to runGA.
\* legacy: runGeneticAlgorithm draws every position in [0, workerCount) and
\* geneticAlgorithm replaces the chromosomes of a new PopulationGA by them.
\* direct: the PopulationGA constructor calls initializePopulation.
InitGA ==
    /\ gaPc = "compute"
    /\ gaEntry \in {"legacy", "direct"}
    /\ taskCount \in 1..MaxTasks
    /\ workerCount \in 1..MaxWorkers
    /\ populationSize \in 1..MaxPop
    /\ (IF gaEntry = "legacy" THEN 1 ELSE 2) * populationSize * taskCount <= MaxGenes
    /\ maxIterations \in 0..MaxIter
    /\ \E draws \in [1..populationSize -> [1..taskCount -> RandomDraws]] :
         IF gaEntry = "legacy"
         THEN /\ chromosomes = [i \in 1..populationSize |->
                    [NewChromosome(taskCount) EXCEPT !.genes =
                        [j \in 1..taskCount |-> RandomIndex(draws[i][j], workerCount)]]]
              /\ originals = <<>>
         ELSE /\ chromosomes = [k \in 1..(2 * populationSize) |->
                    LET i == (k + 1) \div 2
                        genes == GenerateRandomChromosome(draws[i], dataCenterIterator)
                    IN  IF k % 2 = 1 THEN WithIdAndGenes(genes)
                        ELSE WithIdAndGenes(GenerateOppositeChromosome(genes, dataCenterIterator))]
              /\ originals = [i \in 1..populationSize |->
                    GenerateRandomChromosome(draws[i], dataCenterIterator)]
    /\ newPopulation = <<>>
    /\ parents = <<>>
    /\ offspring = <<>>
    /\ iteration = 0
    /\ globalBestFitness = NegInfinity
    /\ globalBestPosition = Zeros(taskCount)
    /\ gaResult = <<>>
    /\ maxEvaluated = NegInfinity
    /\ bestHistory = <<>>
    /\ staleRead = FALSE
    /\ ChoaIdle
    /\ RestIdle

gaConfig == <<gaEntry, taskCount, workerCount, populationSize, maxIterations, originals>>

\* A loop condition that lets one more generation through.
WhileIteratingInclusive(it, maxIt) == it <= maxIt

\* runGA: while (iteration < this.maxIterations)
WhileIterating(it, maxIt) == it < maxIt

\* runGA: computeFitness(population) before the main loop
GAComputeInitial ==
    /\ gaPc = "compute"
    /\ chromosomes' = ComputeFitness(chromosomes)
    /\ maxEvaluated' = FMaxOf(chromosomes', maxEvaluated)
    /\ gaPc' = "loop"
    /\ UNCHANGED <<chVars, restVars, gaConfig, newPopulation, parents, offspring, iteration,
                   globalBestFitness, globalBestPosition, gaResult, bestHistory, staleRead>>

\* runGA: entry of a generation: sortByFitness and the elite
GAElitism ==
    /\ gaPc = "loop"
    /\ WhileIterating(iteration, maxIterations)
    /\ chromosomes' = SortByFitness(chromosomes)
    /\ newPopulation' = <<Elite(chromosomes')>>
    /\ gaPc' = "select"
    /\ staleRead' = (staleRead \/ \E i \in 1..Len(chromosomes) : ~Fresh(chromosomes[i]))
    /\ UNCHANGED <<chVars, restVars, gaConfig, parents, offspring, iteration, globalBestFitness,
                   globalBestPosition, gaResult, maxEvaluated, bestHistory>>

\* runGA: selectParents
GASelectParents ==
    /\ gaPc = "select"
    /\ Len(newPopulation) < populationSize
    /\ \E d1, d2 \in [1..3 -> RandomDraws] :
         /\ parents' = SelectParentsOf(chromosomes, d1, d2)
         /\ staleRead' = (staleRead \/ \E c \in Candidates(chromosomes, d1)
                                               \cup Candidates(chromosomes, d2) : ~Fresh(c))
    /\ gaPc' = "crossover"
    /\ UNCHANGED <<chVars, restVars, gaConfig, chromosomes, newPopulation, offspring, iteration,
                   globalBestFitness, globalBestPosition, gaResult, maxEvaluated,
                   bestHistory>>

\* runGA: crossover
GACrossover ==
    /\ gaPc = "crossover"
    /\ \E dProb, dPoint \in RandomDraws :
         offspring' = CrossoverOf(parents[1], parents[2], dProb, dPoint)
    /\ gaPc' = "mutate"
    /\ UNCHANGED <<chVars, restVars, gaConfig, chromosomes, newPopulation, parents, iteration,
                   globalBestFitness, globalBestPosition, gaResult, maxEvaluated,
                   bestHistory, staleRead>>

\* runGA: mutate(offspring[0])
GAMutateFirst ==
    /\ gaPc = "mutate"
    /\ \E draws \in [1..Len(offspring[1].genes) -> MutationDraws] :
         offspring' = [offspring EXCEPT ![1] =
                          MutateOf(offspring[1], draws, dataCenterIterator)]
    /\ gaPc' = "append"
    /\ UNCHANGED <<chVars, restVars, gaConfig, chromosomes, newPopulation, parents, iteration,
                   globalBestFitness, globalBestPosition, gaResult, maxEvaluated,
                   bestHistory, staleRead>>

\* Both offspring pushed whether or not a slot is left for the second.
PushOffspringBoth(newPop, off, size) == newPop \o <<off[1], off[2]>>

\* newPopulation.push(offspring[0]) and, if a slot is left, push(offspring[1])
PushOffspring(newPop, off, size) ==
    IF Len(newPop) + 1 < size
    THEN newPop \o <<off[1], off[2]>>
    ELSE Append(newPop, off[1])

\* runGA: mutate(offspring[1]), then the offspring enter the new population
GAMutateSecondAndAppend ==
    /\ gaPc = "append"
    /\ \E draws \in [1..Len(offspring[2].genes) -> MutationDraws] :
         newPopulation' = PushOffspring(newPopulation,
             [offspring EXCEPT ![2] =
                 MutateOf(offspring[2], draws, dataCenterIterator)],
             populationSize)
    /\ parents' = <<>>
    /\ offspring' = <<>>
    /\ gaPc' = "select"
    /\ UNCHANGED <<chVars, restVars, gaConfig, chromosomes, iteration, globalBestFitness,
                   globalBestPosition, gaResult, maxEvaluated, bestHistory, staleRead>>

\* runGA: setChromosomes, computeFitness, sortByFitness, the global best, iteration++
GAReplace ==
    /\ gaPc = "select"
    /\ Len(newPopulation) >= populationSize
    /\ chromosomes' = SortByFitness(ComputeFitness(newPopulation))
    /\ maxEvaluated' = FMaxOf(chromosomes', maxEvaluated)
    /\ LET best == UpdateGlobalBest(globalBestFitness, globalBestPosition, chromosomes')
       IN  /\ globalBestFitness' = best[1]
           /\ globalBestPosition' = best[2]
    /\ bestHistory' = Append(bestHistory, globalBestFitness')
    /\ newPopulation' = <<>>
    /\ iteration' = iteration + 1
    /\ gaPc' = "loop"
    /\ staleRead' = (staleRead \/ \E i \in 1..Len(chromosomes') : ~Fresh(chromosomes'[i]))
    /\ UNCHANGED <<chVars, restVars, gaConfig, parents, offspring, gaResult>>

\* The loop ends and getBestVmAllocationForDatacenter(1) is returned.
GAReturn ==
    /\ gaPc = "loop"
    /\ ~WhileIterating(iteration, maxIterations)
    /\ gaResult' = globalBestPosition
    /\ gaPc' = "done"
    /\ UNCHANGED <<chVars, restVars, gaConfig, chromosomes, newPopulation, parents, offspring, iteration,
                   globalBestFitness, globalBestPosition, maxEvaluated, bestHistory, staleRead>>

\* population.applyOppositionBasedLearning(), called on the population the
\* run leaves behind
GAApplyOBL ==
    /\ gaPc = "done"
    /\ chromosomes' = ApplyOppositionBasedLearning(chromosomes, dataCenterIterator)
    /\ staleRead' = (staleRead \/ \E i \in 1..Len(chromosomes) :
                        \/ ~Fresh(chromosomes[i])
                        \/ ~Fresh(OppositeChromosome(chromosomes[i], dataCenterIterator)))
    /\ gaPc' = "obl"
    /\ UNCHANGED <<chVars, restVars, gaConfig, newPopulation, parents, offspring, iteration,
                   globalBestFitness, globalBestPosition, gaResult, maxEvaluated,
                   bestHistory>>

NextGA ==
    \/ GAComputeInitial
    \/ GAElitism
    \/ GASelectParents
    \/ GACrossover
    \/ GAMutateFirst
    \/ GAMutateSecondAndAppend
    \/ GAReplace
    \/ GAReturn
    \/ GAApplyOBL

SpecGA == InitGA /\ [][NextGA]_vars

\* ------------------------------------------------------------------------
\* runChoaAlgorithm
\* ------------------------------------------------------------------------
\* The GA at rest (a swarm run does not touch it).
GAIdle ==
    /\ gaPc = "idle"
    /\ gaEntry = "legacy"
    /\ populationSize = 0
    /\ maxIterations = 0
    /\ chromosomes = <<>>
    /\ newPopulation = <<>>
    /\ parents = <<>>
    /\ offspring = <<>>
    /\ iteration = 0
    /\ globalBestFitness = NegInfinity
    /\ globalBestPosition = <<>>
    /\ gaResult = <<>>
    /\ maxEvaluated = NegInfinity
    /\ bestHistory = <<>>
    /\ originals = <<>>
    /\ staleRead = FALSE

\* The call runChoaAlgorithm(taskCount, workerCount, tasks, iterations,
\* populationSize, useOBL) up to createInitialPopulation and the four sentinels.
InitChoa ==
    /\ GAIdle
    /\ RestIdle
    /\ taskCount \in 1..MaxTasks
    /\ workerCount \in 1..MaxWorkers
    /\ \E n \in 0..MaxTasks : tasks = SubSeq(TaskCatalogue, 1, n)
    /\ iterations \in 0..MaxRounds
    /\ useOBL \in BOOLEAN
    /\ \E size \in 1..MaxChimps :
         /\ size * taskCount <= MaxChimpGenes
         /\ (Len(tasks) # taskCount => size <= MaxMismatch)
         /\ \E draws \in [1..size -> [1..taskCount -> RandomDraws]] :
            population = [i \in 1..size |-> CreateIndividual(draws[i], workerCount)]
    /\ leaders = [attacker |-> Sentinel, barrier |-> Sentinel,
                  chaser |-> Sentinel, driver |-> Sentinel]
    /\ chPc = "evaluate"
    /\ iter = 0
    /\ coefficients = NoCoefficients
    /\ chimp = 0
    /\ newChromosome = <<>>
    /\ chResult = <<>>
    /\ previous = <<>>
    /\ oblPrimary = <<>>
    /\ oblOpposite = <<>>

\* population.forEach(ind => calculateFitness(ind, tasks))
ChoaEvaluateInitial ==
    /\ chPc = "evaluate"
    /\ population' = EvaluateAll(population, tasks)
    /\ chPc' = IF useOBL THEN "obl" ELSE "rank"
    /\ UNCHANGED <<gaVars, restVars, tasks, iterations, useOBL, leaders, iter, coefficients, chimp,
                   newChromosome, chResult, previous, oblPrimary, oblOpposite>>

\* population = applyOBL(population, taskCount, workerCount, tasks)
ChoaApplyOBL ==
    /\ chPc = "obl"
    /\ oblPrimary' = population
    /\ oblOpposite' = OppositePopulation(population, workerCount, tasks)
    /\ population' = ApplyOBL(population, workerCount, tasks)
    /\ chPc' = "rank"
    /\ UNCHANGED <<gaVars, restVars, tasks, iterations, useOBL, leaders, iter, coefficients, chimp,
                   newChromosome, chResult, previous>>

\* evaluateFitness(population, tasks, { attacker, barrier, chaser, driver }):
\* the first ranking, and the ranking that ends an iteration
ChoaRank ==
    /\ chPc = "rank"
    /\ population' = EvaluateAll(population, tasks)
    /\ leaders' = EvaluateFitness(population, tasks, leaders)
    /\ iter' = IF previous = <<>> THEN iter ELSE iter + 1
    /\ chPc' = "loop"
    /\ UNCHANGED <<gaVars, restVars, tasks, iterations, useOBL, coefficients, chimp, newChromosome,
                   chResult, previous, oblPrimary, oblOpposite>>

\* The head of the main loop: updateFandCoefficients and the entry of updatePositions
ChoaBeginIteration ==
    /\ chPc = "loop"
    /\ iter < iterations
    /\ coefficients' = UpdateFandCoefficients(iter, iterations)
    /\ previous' = population
    /\ chimp' = 1
    /\ newChromosome' = <<>>
    /\ chPc' = "update"
    /\ UNCHANGED <<gaVars, restVars, tasks, iterations, useOBL, population, leaders, iter, chResult,
                   oblPrimary, oblOpposite>>

\* updatePositions: the new position of one gene of the current chimp
ChoaProposeGene ==
    /\ chPc = "update"
    /\ chimp <= Len(population)
    /\ Len(newChromosome) < taskCount
    /\ LET j == Len(newChromosome) + 1
           a == GeneAt(leaders.attacker.chromosome, j)
           b == GeneAt(leaders.barrier.chromosome, j)
           c == GeneAt(leaders.chaser.chromosome, j)
           dr == GeneAt(leaders.driver.chromosome, j)
           cur == population[chimp].chromosome[j]
       IN  \E p \in NewPositions(coefficients, a, b, c, dr, cur, workerCount) :
               newChromosome' = Append(newChromosome, p)
    /\ UNCHANGED <<gaVars, restVars, chPc, tasks, iterations, useOBL, population, leaders, iter,
                   coefficients, chimp, chResult, previous, oblPrimary, oblOpposite>>

\* updatePositions: the new chimp is evaluated and replaces the chimp if better
ChoaAccept ==
    /\ chPc = "update"
    /\ chimp <= Len(population)
    /\ Len(newChromosome) >= taskCount
    /\ LET newFitness == CalculateFitness(newChromosome, tasks)
       IN  population' =
             IF AcceptMove(newFitness, population[chimp].fitness)
             THEN [population EXCEPT ![chimp] =
                      [chromosome |-> newChromosome, fitness |-> newFitness]]
             ELSE population
    /\ chimp' = chimp + 1
    /\ newChromosome' = <<>>
    /\ chPc' = IF chimp + 1 > Len(population) THEN "rank" ELSE "update"
    /\ UNCHANGED <<gaVars, restVars, tasks, iterations, useOBL, leaders, iter, coefficients,
                   chResult, previous, oblPrimary, oblOpposite>>

\* return attacker.chromosome
ChoaReturn ==
    /\ chPc = "loop"
    /\ iter >= iterations
    /\ chResult' = leaders.attacker.chromosome
    /\ chPc' = "done"
    /\ UNCHANGED <<gaVars, restVars, tasks, iterations, useOBL, population, leaders, iter,
                   coefficients, chimp, newChromosome, previous, oblPrimary, oblOpposite>>

NextChoa ==
    \/ ChoaEvaluateInitial
    \/ ChoaApplyOBL
    \/ ChoaRank
    \/ ChoaBeginIteration
    \/ ChoaProposeGene
    \/ ChoaAccept
    \/ ChoaReturn

SpecChoa == InitChoa /\ [][NextChoa]_vars

\* ------------------------------------------------------------------------
\* A run of either driver, carried on to its end
\* ------------------------------------------------------------------------
\* A driver is synchronous code on one thread: once called it takes its next
\* step as long as it has one.
InitRuns ==
    \/ InitGA /\ populationSize * taskCount <= MaxRunGenes
    \/ InitChoa /\ Len(population) * taskCount <= MaxRunGenes

NextRuns == NextGA \/ NextChoa

SpecRuns == InitRuns /\ [][NextRuns]_vars /\ WF_vars(NextRuns)

\* ------------------------------------------------------------------------
\* The coefficient schedule of the main loop of runChoaAlgorithm
\* ------------------------------------------------------------------------
\* for (let iter = 0; iter < iterations; iter++) with the call of
\* updateFandCoefficients alone: the schedule depends on nothing else.
InitDecay ==
    /\ GAIdle
    /\ RestIdle
    /\ taskCount = 0
    /\ workerCount = 0
    /\ chPc = "schedule"
    /\ tasks = <<>>
    /\ iterations \in 0..MaxBudget
    /\ useOBL = FALSE
    /\ population = <<>>
    /\ leaders = [attacker |-> Sentinel, barrier |-> Sentinel,
                  chaser |-> Sentinel, driver |-> Sentinel]
    /\ iter = 0
    /\ coefficients = NoCoefficients
    /\ chimp = 0
    /\ newChromosome = <<>>
    /\ chResult = <<>>
    /\ previous = <<>>
    /\ oblPrimary = <<>>
    /\ oblOpposite = <<>>

\* One iteration: const coefficients = updateFandCoefficients(iter, iterations); iter++
DecayIteration ==
    /\ chPc = "schedule"
    /\ iter < iterations
    /\ coefficients' = UpdateFandCoefficients(iter, iterations)
    /\ iter' = iter + 1
    /\ UNCHANGED <<gaVars, restVars, chPc, tasks, iterations, useOBL, population, leaders,
                   chimp, newChromosome, chResult, previous, oblPrimary, oblOpposite>>

NextDecay == DecayIteration

SpecDecay == InitDecay /\ [][NextDecay]_vars

\* ------------------------------------------------------------------------
\* calculateFitness on two individuals and one task list
\* ------------------------------------------------------------------------
\* The weights of the lightest and of the heaviest tier.
Weights == {"ringan", "berat"}

\* Two individuals as createIndividual makes them, and a task list of
\* taskCount tasks.
InitFitness ==
    /\ GAIdle
    /\ RestIdle
    /\ taskCount \in 1..MaxJobs
    /\ workerCount \in 1..MaxWorkers
    /\ tasks \in [1..taskCount -> Weights]
    /\ \E draws \in [1..2 -> [1..taskCount -> RandomDraws]] :
         population = [i \in 1..2 |-> CreateIndividual(draws[i], workerCount)]
    /\ chPc = "measure"
    /\ iterations = 0
    /\ useOBL = FALSE
    /\ leaders = [attacker |-> Sentinel, barrier |-> Sentinel,
                  chaser |-> Sentinel, driver |-> Sentinel]
    /\ iter = 0
    /\ coefficients = NoCoefficients
    /\ chimp = 0
    /\ newChromosome = <<>>
    /\ chResult = <<>>
    /\ previous = <<>>
    /\ oblPrimary = <<>>
    /\ oblOpposite = <<>>

\* calculateFitness(individual, tasks) on both individuals
FitnessMeasure ==
    /\ chPc = "measure"
    /\ population' = EvaluateAll(population, tasks)
    /\ chPc' = "measured"
    /\ UNCHANGED <<gaVars, restVars, tasks, iterations, useOBL, leaders, iter, coefficients,
                   chimp, newChromosome, chResult, previous, oblPrimary, oblOpposite>>

NextFitness == FitnessMeasure

SpecFitness == InitFitness /\ [][NextFitness]_vars

\* ------------------------------------------------------------------------
\* runChoaAlgorithm on a task list twice as long as taskCount
\* ------------------------------------------------------------------------
\* The call runChoaAlgorithm(taskCount, workerCount, tasks, iterations,
\* populationSize, useOBL) with tasks.length = 2 * taskCount: the driver
\* does not compare the two and runs as on any other input.
InitOverlong ==
    /\ GAIdle
    /\ RestIdle
    /\ taskCount \in 1..MaxTasks
    /\ workerCount \in 1..MaxWorkers
    /\ tasks \in [1..(2 * taskCount) -> Weights]
    /\ iterations \in 0..MaxRounds
    /\ useOBL \in BOOLEAN
    /\ \E size \in 1..MaxMismatch :
         \E draws \in [1..size -> [1..taskCount -> RandomDraws]] :
            population = [i \in 1..size |-> CreateIndividual(draws[i], workerCount)]
    /\ leaders = [attacker |-> Sentinel, barrier |-> Sentinel,
                  chaser |-> Sentinel, driver |-> Sentinel]
    /\ chPc = "evaluate"
    /\ iter = 0
    /\ coefficients = NoCoefficients
    /\ chimp = 0
    /\ newChromosome = <<>>
    /\ chResult = <<>>
    /\ previous = <<>>
    /\ oblPrimary = <<>>
    /\ oblOpposite = <<>>

SpecOverlong == InitOverlong /\ [][NextChoa]_vars

\* ------------------------------------------------------------------------
\* The Chromosome class as objects on a heap
\* ------------------------------------------------------------------------
\* A JavaScript array: its indexed elements and its property "-1" (the one a
\* write at index -1 creates; Undefined while absent).
NewArray(n) == [elems |-> Zeros(n), minusOne |-> Undefined]

\* [...a]: a new array with the indexed elements of a
Spread(a) == [elems |-> a.elems, minusOne |-> Undefined]

\* a[index]
ArrayGet(a, index) ==
    IF index \in 0..(Len(a.elems) - 1) THEN a.elems[index + 1]
    ELSE IF index = -1 THEN a.minusOne
    ELSE Undefined

\* a[index] = value: a write past the end grows the array (holes read as
\* undefined), a write at -1 sets a property and leaves the elements alone.
ArraySet(a, index, value) ==
    IF index >= 0
    THEN [a EXCEPT !.elems =
            [i \in 1..(IF index + 1 > Len(a.elems) THEN index + 1 ELSE Len(a.elems)) |->
                IF i = index + 1 THEN value
                ELSE IF i <= Len(a.elems) THEN a.elems[i]
                ELSE Undefined]]
    ELSE [a EXCEPT !.minusOne = value]

\* No object: the clone before clone() is called.
Null == [id |-> -1, genes |-> 0, fitness |-> 0, velocity |-> 0]

\* new Chromosome(chromosomeLength): the arrays after the allocation and the object
ObjNew(arrs, chromosomeLength) ==
    [arrays |-> arrs \o <<NewArray(chromosomeLength), NewArray(chromosomeLength)>>,
     obj |-> [id |-> -1, genes |-> Len(arrs) + 1, fitness |-> 0,
              velocity |-> Len(arrs) + 2]]

\* Chromosome.withIdAndGenes(id, genes), genes being an array
ObjWithIdAndGenes(arrs, id, genes) ==
    LET made == ObjNew(arrs, Len(genes.elems))
    IN  [arrays |-> Append(made.arrays, Spread(genes)),
         obj |-> [made.obj EXCEPT !.id = id, !.genes = Len(made.arrays) + 1]]

\* A clone that shares the genes array of the original.
ObjCloneShared(arrs, this) ==
    [arrays |-> Append(arrs, Spread(arrs[this.velocity])),
     obj |-> [this EXCEPT !.velocity = Len(arrs) + 1]]

\* Chromosome.clone()
ObjClone(arrs, this) ==
    LET made == ObjWithIdAndGenes(arrs, this.id, arrs[this.genes])
    IN  [arrays |-> Append(made.arrays, Spread(arrs[this.velocity])),
         obj |-> [made.obj EXCEPT !.fitness = this.fitness,
                                  !.velocity = Len(made.arrays) + 1]]

\* getGenes() and getVelocity() of an object, as sequences
GenesOf(arrs, o) == arrs[o.genes].elems
VelocityOf(arrs, o) == arrs[o.velocity].elems

\* The values written by the calls under test.
GeneValues == {0, 1}
WrittenGene == 1
WrittenFitness == 1
WrittenVelocity == 1

\* The objects a call can be made on.
Targets == {t \in {"original", "clone"} : objects[t] # Null}

\* The indices tried: one below the range, the range, one above it.
IndicesOf(len) == -1..len

\* Chromosome.withIdAndGenes(0, genes) for a gene array of 1..MaxLength genes
InitObj ==
    /\ GAIdle
    /\ ChoaIdle
    /\ BrokerIdle
    /\ taskCount = 0
    /\ workerCount = 0
    /\ \E len \in 1..MaxLength : \E genes \in [1..len -> GeneValues] :
         LET made == ObjWithIdAndGenes(<<>>, 0, [elems |-> genes, minusOne |-> Undefined])
         IN  /\ heapArrays = made.arrays
             /\ objects = [original |-> made.obj, clone |-> Null]
             /\ beforeCall = [arrays |-> <<>>, objects |-> [original |-> Null, clone |-> Null]]
    /\ lastCall = [op |-> "withIdAndGenes", target |-> "original", index |-> 0,
                   result |-> Undefined, threw |-> FALSE]
    /\ calls = 0

\* The bookkeeping of a call: the state it found and what it did.
Called(op, target, index, result, threw) ==
    /\ calls < MaxCalls
    /\ calls' = calls + 1
    /\ beforeCall' = [arrays |-> heapArrays, objects |-> objects]
    /\ lastCall' = [op |-> op, target |-> target, index |-> index,
                    result |-> result, threw |-> threw]

\* clone = original.clone()
CallClone ==
    /\ objects.clone = Null
    /\ LET made == ObjClone(heapArrays, objects.original)
       IN  /\ heapArrays' = made.arrays
           /\ objects' = [objects EXCEPT !.clone = made.obj]
    /\ Called("clone", "original", 0, Undefined, FALSE)
    /\ UNCHANGED <<gaVars, chVars, brVars>>

\* target.getGene(index)
CallGetGene ==
    /\ \E t \in Targets : \E index \in IndicesOf(Len(GenesOf(heapArrays, objects[t]))) :
         Called("getGene", t, index, ArrayGet(heapArrays[objects[t].genes], index), FALSE)
    /\ UNCHANGED <<gaVars, chVars, brVars, heapArrays, objects>>

\* target.setGene(index, WrittenGene)
CallSetGene ==
    /\ \E t \in Targets : \E index \in IndicesOf(Len(GenesOf(heapArrays, objects[t]))) :
         /\ heapArrays' = [heapArrays EXCEPT ![objects[t].genes] =
                              ArraySet(heapArrays[objects[t].genes], index, WrittenGene)]
         /\ Called("setGene", t, index, Undefined, FALSE)
    /\ UNCHANGED <<gaVars, chVars, brVars, objects>>

\* target.setFitness(fitness)
CallSetFitness ==
    /\ \E t \in Targets :
         /\ objects' = [objects EXCEPT ![t].fitness = WrittenFitness]
         /\ Called("setFitness", t, 0, Undefined, FALSE)
    /\ UNCHANGED <<gaVars, chVars, brVars, heapArrays>>

\* target.setVelocity(index, value): throws when the index is out of bounds
CallSetVelocity ==
    /\ \E t \in Targets : \E index \in IndicesOf(Len(VelocityOf(heapArrays, objects[t]))) :
         IF index >= 0 /\ index < Len(VelocityOf(heapArrays, objects[t]))
         THEN /\ heapArrays' = [heapArrays EXCEPT ![objects[t].velocity] =
                                   ArraySet(heapArrays[objects[t].velocity], index,
                                            WrittenVelocity)]
              /\ Called("setVelocity", t, index, Undefined, FALSE)
         ELSE /\ heapArrays' = heapArrays
              /\ Called("setVelocity", t, index, Undefined, TRUE)
    /\ UNCHANGED <<gaVars, chVars, brVars, objects>>

NextObj ==
    \/ CallClone
    \/ CallGetGene
    \/ CallSetGene
    \/ CallSetFitness
    \/ CallSetVelocity

SpecObj == InitObj /\ [][NextObj]_vars

\* ------------------------------------------------------------------------
\* geneticAlgorithm(population, iterations) on the heap
\* ------------------------------------------------------------------------
\* The chromosomes are objects whose genes and velocity are references into
\* heapArrays; chromosomes, newPopulation, parents and offspring hold such
\* objects, globalBestPosition and gaResult hold a reference.

\* The chromosome as the operators of the GeneticAlgorithm section read it.
Deref(arrs, o) == [genes |-> GenesOf(arrs, o), fitness |-> o.fitness]

\* new Chromosome(len), its fitness a fraction
HeapChromosome(arrs, len) ==
    LET made == ObjNew(arrs, len)
    IN  [arrays |-> made.arrays, obj |-> [made.obj EXCEPT !.fitness = ZeroFitness]]

\* chromosome.setId(i); chromosome.setGenes([...individual.position])
ConvertIndividual(arrs, i, individual, len) ==
    LET made == HeapChromosome(arrs, len)
    IN  [arrays |-> Append(made.arrays, Spread(arrs[individual.position])),
         obj |-> [made.obj EXCEPT !.id = i, !.genes = Len(made.arrays) + 1]]

\* The conversion loop of geneticAlgorithm over the individuals k..Len(pop):
\* the heap and the chromosomes pushed so far.
RECURSIVE ConvertFrom(_, _, _, _, _)
ConvertFrom(arrs, cs, pop, k, len) ==
    IF k > Len(pop) THEN [arrays |-> arrs, chromosomes |-> cs]
    ELSE LET made == ConvertIndividual(arrs, k - 1, pop[k], len)
         IN  ConvertFrom(made.arrays, Append(cs, made.obj), pop, k + 1, len)

\* computeFitness(population, dataCenterIterator) on heap objects
HeapComputeFitness(arrs, cs) ==
    [i \in 1..Len(cs) |-> [cs[i] EXCEPT !.fitness = CalcFitness(GenesOf(arrs, cs[i]))]]

\* this.setGene(i, genes[i]) for every gene of the object o
WriteGenes(arrs, o, genes) ==
    [arrs EXCEPT ![o.genes] = [@ EXCEPT !.elems = genes]]

\* crossover(parent1, parent2): two new chromosomes with the ids of the
\* parents, their genes written one by one
HeapCrossover(arrs, parent1, parent2, dProb, dPoint) ==
    LET genes == CrossoverOf(Deref(arrs, parent1), Deref(arrs, parent2), dProb, dPoint)
        first == HeapChromosome(arrs, Len(GenesOf(arrs, parent1)))
        second == HeapChromosome(first.arrays, Len(GenesOf(arrs, parent2)))
        o0 == [first.obj EXCEPT !.id = parent1.id]
        o1 == [second.obj EXCEPT !.id = parent2.id]
    IN  [arrays |-> WriteGenes(WriteGenes(second.arrays, o0, genes[1].genes), o1, genes[2].genes),
         offspring |-> <<o0, o1>>]

\* mutate(offspring, dataCenterIterator) on a heap object
HeapMutate(arrs, o, draws, dci) ==
    WriteGenes(arrs, o, MutateOf(Deref(arrs, o), draws, dci).genes)

\* The best position kept as the genes array of the chromosome itself.
ShareBestPosition(arrs, o) == [arrays |-> arrs, ref |-> o.genes]

\* this.globalBestPositions[dcIndex] = [...population.getChromosome(0).getGenes()]
CopyBestPosition(arrs, o) ==
    [arrays |-> Append(arrs, Spread(arrs[o.genes])), ref |-> Len(arrs) + 1]

\* The references the caller's individuals hold.
CallerRefs ==
    {objects[i].position : i \in 1..Len(objects)} \cup {objects[i].velocity : i \in 1..Len(objects)}

\* The references the chromosomes of the working population hold.
WorkingRefs ==
    {chromosomes[i].genes : i \in 1..Len(chromosomes)}
        \cup {chromosomes[i].velocity : i \in 1..Len(chromosomes)}

\* A caller's population of 1..MaxCallers individuals with taskCount genes
\* each, every individual with arrays of its own, at the call
\* geneticAlgorithm(population, iterations).
InitLegacy ==
    /\ ChoaIdle
    /\ BrokerIdle
    /\ gaPc = "call"
    /\ gaEntry = "legacy"
    /\ taskCount \in 1..MaxLength
    /\ workerCount = 0
    /\ populationSize \in 1..MaxCallers
    /\ maxIterations \in 0..MaxIter
    /\ \E positions \in [1..populationSize -> [1..taskCount -> GeneValues]] :
         /\ heapArrays = [k \in 1..(2 * populationSize) |->
                IF k % 2 = 1
                THEN [elems |-> positions[(k + 1) \div 2], minusOne |-> Undefined]
                ELSE NewArray(taskCount)]
         /\ objects = [i \in 1..populationSize |->
                [position |-> 2 * i - 1, velocity |-> 2 * i, fitness |-> 0]]
    /\ beforeCall = [arrays |-> heapArrays, objects |-> objects]
    /\ lastCall = <<>>
    /\ calls = 0
    /\ chromosomes = <<>>
    /\ newPopulation = <<>>
    /\ parents = <<>>
    /\ offspring = <<>>
    /\ iteration = 0
    /\ globalBestFitness = NegInfinity
    /\ globalBestPosition = 0
    /\ gaResult = 0
    /\ maxEvaluated = NegInfinity
    /\ bestHistory = <<>>
    /\ originals = <<>>
    /\ staleRead = FALSE

legacyFrame == <<chVars, brVars, gaEntry, taskCount, workerCount, populationSize, maxIterations,
                 maxEvaluated, bestHistory, originals, staleRead, objects, lastCall,
                 beforeCall, calls>>

\* geneticAlgorithm up to the main loop of runGA: the conversion loop,
\* setChromosomes, the GeneticAlgorithm constructor and the first
\* computeFitness.  (The chromosomes the PopulationGA constructor draws are
\* dropped unread by setChromosomes.)
LegacyConvert ==
    /\ gaPc = "call"
    /\ LET converted == ConvertFrom(heapArrays, <<>>, objects, 1,
                                    Len(heapArrays[objects[1].position].elems))
       IN  /\ heapArrays' = Append(converted.arrays, NewArray(taskCount))
           /\ globalBestPosition' = Len(converted.arrays) + 1
           /\ chromosomes' = HeapComputeFitness(converted.arrays, converted.chromosomes)
    /\ gaPc' = "loop"
    /\ UNCHANGED <<legacyFrame, newPopulation, parents, offspring, iteration,
                   globalBestFitness, gaResult>>

\* runGA: sortByFitness and newPopulation.push(population.getChromosome(0).clone())
LegacyElitism ==
    /\ gaPc = "loop"
    /\ WhileIterating(iteration, maxIterations)
    /\ chromosomes' = SortByFitness(chromosomes)
    /\ LET made == ObjClone(heapArrays, chromosomes'[1])
       IN  /\ heapArrays' = made.arrays
           /\ newPopulation' = <<made.obj>>
    /\ gaPc' = "select"
    /\ UNCHANGED <<legacyFrame, parents, offspring, iteration, globalBestFitness,
                   globalBestPosition, gaResult>>

\* runGA: selectParents and crossover
LegacyCrossover ==
    /\ gaPc = "select"
    /\ Len(newPopulation) < populationSize
    /\ \E d1, d2 \in [1..3 -> RandomDraws] : \E dProb, dPoint \in RandomDraws :
         LET chosen == SelectParentsOf(chromosomes, d1, d2)
             made == HeapCrossover(heapArrays, chosen[1], chosen[2], dProb, dPoint)
         IN  /\ parents' = chosen
             /\ heapArrays' = made.arrays
             /\ offspring' = made.offspring
    /\ gaPc' = "mutate"
    /\ UNCHANGED <<legacyFrame, chromosomes, newPopulation, iteration, globalBestFitness,
                   globalBestPosition, gaResult>>

\* runGA: mutate both offspring and push them while a slot is left
LegacyMutateAndAppend ==
    /\ gaPc = "mutate"
    /\ \E draws0, draws1 \in [1..taskCount -> MutationDraws] :
         heapArrays' = HeapMutate(HeapMutate(heapArrays, offspring[1], draws0, dataCenterIterator),
                                  offspring[2], draws1, dataCenterIterator)
    /\ newPopulation' = PushOffspring(newPopulation, offspring, populationSize)
    /\ parents' = <<>>
    /\ offspring' = <<>>
    /\ gaPc' = "select"
    /\ UNCHANGED <<legacyFrame, chromosomes, iteration, globalBestFitness,
                   globalBestPosition, gaResult>>

\* runGA: setChromosomes, computeFitness, sortByFitness, the global best, iteration++
LegacyReplace ==
    /\ gaPc = "select"
    /\ Len(newPopulation) >= populationSize
    /\ chromosomes' = SortByFitness(HeapComputeFitness(heapArrays, newPopulation))
    /\ IF FGt(chromosomes'[1].fitness, globalBestFitness)
       THEN LET best == CopyBestPosition(heapArrays, chromosomes'[1])
            IN  /\ globalBestFitness' = chromosomes'[1].fitness
                /\ heapArrays' = best.arrays
                /\ globalBestPosition' = best.ref
       ELSE UNCHANGED <<globalBestFitness, heapArrays, globalBestPosition>>
    /\ newPopulation' = <<>>
    /\ iteration' = iteration + 1
    /\ gaPc' = "loop"
    /\ UNCHANGED <<legacyFrame, parents, offspring, gaResult>>

\* return ga.getBestVmAllocationForDatacenter(1)
LegacyReturn ==
    /\ gaPc = "loop"
    /\ ~WhileIterating(iteration, maxIterations)
    /\ gaResult' = globalBestPosition
    /\ gaPc' = "done"
    /\ UNCHANGED <<legacyFrame, heapArrays, chromosomes, newPopulation, parents, offspring,
                   iteration, globalBestFitness, globalBestPosition>>

NextLegacy ==
    \/ LegacyConvert
    \/ LegacyElitism
    \/ LegacyCrossover
    \/ LegacyMutateAndAppend
    \/ LegacyReplace
    \/ LegacyReturn

SpecLegacy == InitLegacy /\ [][NextLegacy]_vars

\* ------------------------------------------------------------------------
\* The broker (POST /schedule, POST /reset, POST /cpu-usage-report)
\* ------------------------------------------------------------------------
\* The task file: BatchSize tasks, named by their index.
BrokerTasks == [i \in 1..BatchSize |-> i - 1]

\* const totalTasks: the size of the task file the broker is shipped with
totalTasks == BatchSize

\* The workers the broker dispatches to, with costPerMips in tenths.
workerSpecifications ==
    <<[id |-> 0, costPerMips |-> 4], [id |-> 1, costPerMips |-> 6]>>

\* What runABCAlgorithm(tasks.length, workers.length, tasks, workerSpecs) may
\* return: an assignment vector of tasks.length worker indices.
Mappings ==
    {[i \in 1..Len(BrokerTasks) |-> 0],
     [i \in 1..Len(BrokerTasks) |-> (i - 1) % Len(workerSpecifications)]}

\* null
NullTime == 0

\* Date.now()
Now == 1

\* response.data.result of a worker that answered
WorkerReply == [start_time |-> 2, finish_time |-> 3, execution_time |-> 1000]

\* execTime / 1000 * costPerMips, in tenths
TaskCostOf(execTime, costPerMips) == (execTime * costPerMips) \div 1000

\* currentIndex++ left undone: the index stays where it was.
NextIndexStuck(index) == index

\* currentIndex++ wrapping around at the end of the task file.
NextIndexWrapping(index) == (index + 1) % Len(BrokerTasks)

\* currentIndex++
NextIndex(index) == index + 1

\* A /schedule request that has not arrived yet.
NoRequest == [pc |-> "waiting", task |-> -1, target |-> -1, costPerMips |-> 0,
              session |-> -1, status |-> 0]

\* The broker after start-up, before any request.
InitBroker ==
    /\ GAIdle
    /\ ChoaIdle
    /\ ObjIdle
    /\ taskCount = 0
    /\ workerCount = 0
    /\ currentIndex = 0
    /\ completedTasks = 0
    /\ abcMapping = <<>>
    /\ workerSpecs = <<>>
    /\ makespanStart = NullTime
    /\ makespanEnd = NullTime
    /\ totalCost = 0
    /\ startTimes = <<>>
    /\ finishTimes = <<>>
    /\ executionTimes = <<>>
    /\ waitingTimes = <<>>
    /\ executionTimeByWorker = [w \in 1..Len(workerSpecifications) |-> 0]
    /\ cpuUsages = <<>>
    /\ handlers = [h \in 1..MaxRequests |-> NoRequest]
    /\ session = 0
    /\ optimizerRuns = <<>>
    /\ mappingVersion = 0
    /\ dispatches = <<>>

\* /schedule from `if (currentIndex >= tasks.length)` to the axios.post:
\* the answer 400, or the dispatch of the next task with the mapping and the
\* worker specifications at hand.
ScheduleTail(h, mapping, specs, version) ==
    IF currentIndex >= Len(BrokerTasks)
    THEN /\ handlers' = [handlers EXCEPT ![h] = [@ EXCEPT !.pc = "done", !.status = 400,
                                                       !.session = session]]
         /\ UNCHANGED <<currentIndex, makespanStart, dispatches>>
    ELSE LET targetIndex == mapping[currentIndex + 1]
         IN  /\ currentIndex' = NextIndex(currentIndex)
             /\ makespanStart' = IF makespanStart = NullTime THEN Now ELSE makespanStart
             /\ IF targetIndex + 1 \in 1..Len(specs)
                THEN /\ handlers' = [handlers EXCEPT ![h] =
                            [pc |-> "awaitWorker", task |-> currentIndex,
                             target |-> targetIndex,
                             costPerMips |-> specs[targetIndex + 1].costPerMips,
                             session |-> session, status |-> 0]]
                     /\ dispatches' = Append(dispatches,
                            [session |-> session, task |-> currentIndex,
                             version |-> version, target |-> targetIndex])
                ELSE \* workerSpec is undefined: workerSpec.host throws inside the try
                     /\ handlers' = [handlers EXCEPT ![h] =
                            [@ EXCEPT !.pc = "done", !.status = 500, !.task = currentIndex,
                                      !.session = session]]
                     /\ UNCHANGED dispatches

metrics == <<completedTasks, totalCost, startTimes, finishTimes, executionTimes,
             waitingTimes, executionTimeByWorker>>

\* /schedule, from the arrival of the request to its first await
ScheduleArrive(h) ==
    /\ handlers[h].pc = "waiting"
    /\ (h > 1 => handlers[h - 1].pc # "waiting")
    /\ cpuUsages' = IF currentIndex = 0 THEN <<>> ELSE cpuUsages
    /\ IF abcMapping = <<>>
       THEN /\ handlers' = [handlers EXCEPT ![h] = [@ EXCEPT !.pc = "awaitSpecs"]]
            /\ UNCHANGED <<currentIndex, makespanStart, dispatches>>
       ELSE ScheduleTail(h, abcMapping, workerSpecs, mappingVersion)
    /\ UNCHANGED <<gaVars, chVars, objVars, metrics, abcMapping, workerSpecs, makespanEnd,
                   session, optimizerRuns, mappingVersion>>

\* /schedule resumed after `await getWorkerSpecifications()`: the optimizer
\* runs, its result is cached, and the handler goes on to its next await
ScheduleOptimize(h) ==
    /\ handlers[h].pc = "awaitSpecs"
    /\ workerSpecs' = workerSpecifications
    /\ \E mapping \in Mappings :
         /\ abcMapping' = mapping
         /\ ScheduleTail(h, mapping, workerSpecifications, Len(optimizerRuns) + 1)
    /\ optimizerRuns' = Append(optimizerRuns, session)
    /\ mappingVersion' = Len(optimizerRuns) + 1
    /\ UNCHANGED <<gaVars, chVars, objVars, metrics, makespanEnd, session, cpuUsages>>

\* /schedule resumed after `await axios.post(...)` with the worker's answer
WorkerReplies(h) ==
    /\ handlers[h].pc = "awaitWorker"
    /\ LET execTime == WorkerReply.execution_time
       IN  /\ totalCost' = totalCost + TaskCostOf(execTime, handlers[h].costPerMips)
           /\ startTimes' = Append(startTimes, WorkerReply.start_time)
           /\ finishTimes' = Append(finishTimes, WorkerReply.finish_time)
           /\ executionTimes' = Append(executionTimes, execTime)
           /\ waitingTimes' = Append(waitingTimes, WorkerReply.start_time - makespanStart)
           /\ executionTimeByWorker' =
                 [executionTimeByWorker EXCEPT ![handlers[h].target + 1] = @ + execTime]
    /\ completedTasks' = completedTasks + 1
    /\ makespanEnd' = IF completedTasks' = totalTasks THEN Now ELSE makespanEnd
    /\ handlers' = [handlers EXCEPT ![h] = [@ EXCEPT !.pc = "done", !.status = 200]]
    /\ UNCHANGED <<gaVars, chVars, objVars, currentIndex, abcMapping, workerSpecs,
                   makespanStart, cpuUsages, session, optimizerRuns, mappingVersion,
                   dispatches>>

\* /schedule resumed after `await axios.post(...)` with a network failure:
\* the catch block answers 500
WorkerFails(h) ==
    /\ handlers[h].pc = "awaitWorker"
    /\ handlers' = [handlers EXCEPT ![h] = [@ EXCEPT !.pc = "done", !.status = 500]]
    /\ UNCHANGED <<gaVars, chVars, objVars, metrics, currentIndex, abcMapping,
                   workerSpecs, makespanStart, makespanEnd, cpuUsages, session,
                   optimizerRuns, mappingVersion, dispatches>>

\* POST /reset (its cpuUsages is a local array: the log is left as it is)
Reset ==
    /\ session < MaxResets
    /\ currentIndex' = 0
    /\ completedTasks' = 0
    /\ makespanStart' = NullTime
    /\ makespanEnd' = NullTime
    /\ abcMapping' = <<>>
    /\ workerSpecs' = <<>>
    /\ startTimes' = <<>>
    /\ finishTimes' = <<>>
    /\ executionTimes' = <<>>
    /\ totalCost' = 0
    /\ waitingTimes' = <<>>
    /\ executionTimeByWorker' = [w \in 1..Len(workerSpecifications) |-> 0]
    /\ session' = session + 1
    /\ mappingVersion' = 0
    /\ UNCHANGED <<gaVars, chVars, objVars, cpuUsages, handlers, optimizerRuns, dispatches>>

\* POST /cpu-usage-report
CpuUsageReport ==
    /\ Len(cpuUsages) < MaxReports
    /\ cpuUsages' = Append(cpuUsages, Now)
    /\ UNCHANGED <<gaVars, chVars, objVars, metrics, currentIndex, abcMapping,
                   workerSpecs, makespanStart, makespanEnd, handlers, session,
                   optimizerRuns, mappingVersion, dispatches>>

NextBroker ==
    \/ \E h \in 1..MaxRequests : ScheduleArrive(h)
    \/ \E h \in 1..MaxRequests : ScheduleOptimize(h)
    \/ \E h \in 1..MaxRequests : WorkerReplies(h)
    \/ \E h \in 1..MaxRequests : WorkerFails(h)
    \/ Reset
    \/ CpuUsageReport

SpecBroker == InitBroker /\ [][NextBroker]_vars

\* ------------------------------------------------------------------------
\* Properties of the GA driver (SpecGA)
\* ------------------------------------------------------------------------
\* v is an assignment vector for tc tasks and wc workers.
ValidAssignment(v, tc, wc) ==
    /\ Len(v) = tc
    /\ \A i \in 1..Len(v) : v[i] \in 0..(wc - 1)

\* C2: runGeneticAlgorithm(taskCount, workerCount) returns a sequence of
\* length taskCount whose entries all lie in [0, workerCount).
C2_GAOutputValid ==
    (gaEntry = "legacy" /\ gaPc = "done") =>
        ValidAssignment(gaResult, taskCount, workerCount)

\* C3: the best-ever fitness recorded at the end of a generation is never
\* below the one recorded at the end of the generation before.
C3_BestEverMonotone ==
    \A k \in 1..(Len(bestHistory) - 1) : FLeq(bestHistory[k], bestHistory[k + 1])

\* A run in which the second generation improved on the first.
C3_Witness ==
    /\ gaPc = "loop"
    /\ Len(bestHistory) = 2
    /\ FLt(bestHistory[1], bestHistory[2])

\* C4: after every completed generation the recorded best-ever fitness is
\* the greatest fitness calcFitness has returned so far, and the recorded
\* best-ever genes (the value returned at the end) evaluate to that fitness.
C4_BestEverIsMaxEvaluated ==
    (iteration >= 1) =>
        /\ FEq(globalBestFitness, maxEvaluated)
        /\ FEq(CalcFitness(globalBestPosition), globalBestFitness)
        /\ (gaPc = "done" => gaResult = globalBestPosition)

\* A finished run whose best-ever was found after the first generation and
\* is not the elite of the initial population.
C4_Witness ==
    /\ gaPc = "done"
    /\ iteration >= 2
    /\ FGt(globalBestFitness, bestHistory[1])
    /\ FEq(CalcFitness(gaResult), maxEvaluated)

\* C7: every chromosome made by initializePopulation and its opposite add up
\* to workerCount - 1 at every gene position.
C7_GAOppositionSum ==
    (gaEntry = "direct" /\ gaPc = "compute") =>
        \A i \in 1..populationSize : \A j \in 1..taskCount :
            chromosomes[2 * i].genes[j] + chromosomes[2 * i - 1].genes[j] = workerCount - 1

\* C9: with one task and one worker the GA returns exactly <<0>>.
C9_GABoundary ==
    (taskCount = 1 /\ workerCount = 1 /\ gaPc = "done") => gaResult = <<0>>

\* C16: a PopulationGA built with populationSize N holds N chromosomes from
\* its construction on, in every state of runGA.
C16_PopulationCapacity ==
    Len(chromosomes) = populationSize

\* The positions of runGA between the elitism step and the replacement of
\* the population.
Breeding == gaPc \in {"select", "crossover", "mutate", "append"}

\* While a generation is bred, the head of the new population carries the
\* genes of a chromosome of maximum fitness of the current one, and the new
\* population never outgrows populationSize.
EliteKept ==
    Breeding =>
        /\ newPopulation[1].genes = chromosomes[1].genes
        /\ \A i \in 1..Len(chromosomes) :
              FLeq(CalcFitness(chromosomes[i].genes), CalcFitness(newPopulation[1].genes))
        /\ Len(newPopulation) <= populationSize

\* The step that replaces the population: the next generation has
\* populationSize chromosomes, one of them with the genes of the elite.
ReplaceStep ==
    (gaPc = "select" /\ gaPc' = "loop") =>
        /\ Len(chromosomes') = populationSize
        /\ \E i \in 1..Len(chromosomes') : chromosomes'[i].genes = chromosomes[1].genes

\* C17: every next generation of runGA has exactly populationSize
\* chromosomes and contains, gene for gene, the maximum-fitness chromosome of
\* the current generation, untouched by crossover and mutation.
C17_EliteCarriedForward == [] EliteKept /\ [][ReplaceStep]_vars

\* A generation has been replaced in a run where populationSize - 1 is odd,
\* so that one offspring of the last pair was dropped, starting from a
\* population of two different fitness values.
C17_Witness ==
    /\ gaPc = "loop"
    /\ iteration >= 1
    /\ populationSize = 2
    /\ Len(chromosomes) = 2
    /\ FLt(bestHistory[1], <<1, 1>>)

\* C18: every fitness the GA engine reads in a comparison or a sort
\* (sortByFitness, selectParents, the best-ever update,
\* applyOppositionBasedLearning) was computed by calcFitness from the current
\* genes of its chromosome.
C18_FitnessFresh == ~staleRead

\* The greatest fitness among the candidates of a tournament.
BestOfCandidates(cs, d) ==
    CHOOSE f \in {c.fitness : c \in Candidates(cs, d)} :
        \A c \in Candidates(cs, d) : FLeq(c.fitness, f)

\* The chromosomes of a population, as a set.
Members(cs) == {cs[i] : i \in 1..Len(cs)}

\* t is the winner of the tournament with the draws d: a chromosome of the
\* population with the greatest fitness among the three candidates.
Winner(t, cs, d) ==
    /\ t \in Members(cs)
    /\ FEq(t.fitness, BestOfCandidates(cs, d))

\* C19: on the evaluated population of a generation every tournament of
\* selectParents returns, whatever the draws, a chromosome of the population
\* with the greatest fitness among its three candidates; selectParents
\* returns two such chromosomes, one per tournament.
C19_TournamentSelection ==
    /\ (gaPc = "select" =>
          \A d \in [1..3 -> RandomDraws] : Winner(Tournament(chromosomes, d), chromosomes, d))
    /\ (gaPc = "crossover" =>
          /\ Len(parents) = 2
          /\ \A k \in 1..2 : \E d \in [1..3 -> RandomDraws] :
                parents[k] = Tournament(chromosomes, d) /\ Winner(parents[k], chromosomes, d))

\* selectParents returned the same individual twice while the population
\* holds a chromosome of lower fitness.
C19_Witness ==
    /\ gaPc = "crossover"
    /\ parents[1] = parents[2]
    /\ \E i \in 1..Len(chromosomes) : FLt(chromosomes[i].fitness, parents[1].fitness)
    /\ \E i \in 1..Len(chromosomes) : chromosomes[i].genes # parents[1].genes

\* off is the single-point crossover of p1 and p2 at point c.
SinglePoint(off, p1, p2, c) ==
    /\ Len(off[1].genes) = Len(p1.genes)
    /\ Len(off[2].genes) = Len(p1.genes)
    /\ \A i \in 1..Len(p1.genes) :
          IF i - 1 < c
          THEN off[1].genes[i] = p1.genes[i] /\ off[2].genes[i] = p2.genes[i]
          ELSE off[1].genes[i] = p2.genes[i] /\ off[2].genes[i] = p1.genes[i]

\* off holds the genes of p1 and p2, in this order.
Copies(off, p1, p2) ==
    /\ off[1].genes = p1.genes
    /\ off[2].genes = p2.genes

\* The step of runGA that calls crossover leaves the parents and the
\* population as they were.
CrossoverStep ==
    (gaPc = "crossover" /\ gaPc' = "mutate") =>
        (parents' = parents /\ chromosomes' = chromosomes)

\* C20: for parents of equal length L crossover returns two offspring of
\* length L: when it fires, with a point c in [0, L), the offspring are the
\* single-point crossover at c; when it does not fire they are copies of
\* the parents; the parents are unchanged.
C20_SinglePointCrossover ==
    /\ [] (gaPc = "crossover" =>
             \A dProb, dPoint \in RandomDraws :
                 LET off == CrossoverOf(parents[1], parents[2], dProb, dPoint)
                     c == RandomIndex(dPoint, Len(parents[1].genes))
                 IN  /\ Len(off) = 2
                     /\ c \in 0..(Len(parents[1].genes) - 1)
                     /\ IF dProb < CrossoverProbability
                        THEN SinglePoint(off, parents[1], parents[2], c)
                        ELSE Copies(off, parents[1], parents[2]))
    /\ [] (gaPc = "mutate" =>
             \/ Copies(offspring, parents[1], parents[2])
             \/ \E c \in 0..(Len(parents[1].genes) - 1) :
                   SinglePoint(offspring, parents[1], parents[2], c))
    /\ [][CrossoverStep]_vars

\* crossover fired at a point inside the chromosome on two parents that
\* differ before and after it: each offspring mixes genes of both.
C20_Witness ==
    /\ gaPc = "mutate"
    /\ offspring[1].genes # parents[1].genes
    /\ offspring[1].genes # parents[2].genes
    /\ offspring[2].genes # parents[1].genes
    /\ offspring[2].genes # parents[2].genes
    /\ \E c \in 1..(Len(parents[1].genes) - 1) :
          SinglePoint(offspring, parents[1], parents[2], c)

\* C21: with dataCenterIterator = 1, every value mutate writes into a gene
\* is a valid worker index of the scheduling problem, in [0, workerCount);
\* the genes not selected for mutation and the length of the chromosome are
\* left as they were.
C21_MutationRange ==
    (gaPc = "mutate") =>
        \A draws \in [1..Len(offspring[1].genes) -> MutationDraws] :
            LET mutated == MutateOf(offspring[1], draws, dataCenterIterator)
            IN  /\ Len(mutated.genes) = Len(offspring[1].genes)
                /\ \A i \in 1..Len(mutated.genes) :
                      IF draws[i][1] < MutationProbability
                      THEN mutated.genes[i] \in 0..(workerCount - 1)
                      ELSE mutated.genes[i] = offspring[1].genes[i]

\* ------------------------------------------------------------------------
\* Properties of the swarm driver (SpecChoa)
\* ------------------------------------------------------------------------
\* Chimp i holds other genes than at the start of the iteration.
Moved(i) == population[i].chromosome # previous[i].chromosome

C5_GreedyAcceptance ==
    (previous # <<>>) =>
        \A i \in 1..Len(population) :
            /\ DLeq(population[i].fitness, previous[i].fitness)
            /\ (Moved(i) => DLt(population[i].fitness, previous[i].fitness))

\* An iteration has ended in which one chimp moved and another did not.
C5_Witness ==
    /\ chPc = "loop"
    /\ previous # <<>>
    /\ \E i, k \in 1..Len(population) :
          /\ Moved(i)
          /\ DLt(population[i].fitness, previous[i].fitness)
          /\ population[k] = previous[k]

\* C6: every opposite individual applyOBL builds mirrors its original gene
\* by gene (the two add up to workerCount - 1) and stays in [0, workerCount).
C6_ChoaOppositionSum ==
    \A i \in 1..Len(oblOpposite) :
        /\ Len(oblOpposite[i].chromosome) = Len(oblPrimary[i].chromosome)
        /\ \A j \in 1..Len(oblPrimary[i].chromosome) :
              /\ oblOpposite[i].chromosome[j] + oblPrimary[i].chromosome[j] = workerCount - 1
              /\ oblOpposite[i].chromosome[j] \in 0..(workerCount - 1)

\* applyOBL has run on a population with genes of both ends of the range.
C6_Witness ==
    /\ chPc = "rank"
    /\ workerCount >= 2
    /\ \E i \in 1..Len(oblOpposite) : \E j, k \in 1..Len(oblPrimary[i].chromosome) :
          /\ oblPrimary[i].chromosome[j] = 0
          /\ oblOpposite[i].chromosome[j] = workerCount - 1
          /\ oblPrimary[i].chromosome[k] = workerCount - 1

\* C10: a run given an empty task list never returns an assignment vector.
C10_EmptyTasksFail ==
    (tasks = <<>>) => (chPc # "done" /\ chResult = <<>>)

\* C11: a run whose task list is not of length taskCount fails and never
\* returns an assignment vector (stated for a non-empty task list; the empty
\* one is C10).
C11_DimensionMismatchFails ==
    (tasks # <<>> /\ Len(tasks) # taskCount) => (chPc # "done" /\ chResult = <<>>)

\* The positions of runChoaAlgorithm right after a call of evaluateFitness.
Ranked == chPc \in {"loop", "done"}

\* The attacker's fitness is the minimum over the population and is the
\* fitness of the attacker's genes.
AttackerIsBest ==
    Ranked =>
        /\ \A i \in 1..Len(population) :
              DLeq(leaders.attacker.fitness, population[i].fitness)
        /\ \E i \in 1..Len(population) :
              leaders.attacker.fitness = population[i].fitness
        /\ CalculateFitness(leaders.attacker.chromosome, tasks) = leaders.attacker.fitness

\* No step raises the attacker's fitness.
AttackerStep == DLeq(leaders'.attacker.fitness, leaders.attacker.fitness)

\* C23: after every call of evaluateFitness in runChoaAlgorithm (the first
\* ranking and the ranking that ends each iteration) the attacker's fitness
\* is the minimum fitness of the population, the attacker's genes evaluate
\* to it, and the attacker's fitness never increases.
C23_AttackerIsBest == [] AttackerIsBest /\ [][AttackerStep]_vars

\* An iteration in which a chimp moved has been ranked, and the attacker is
\* strictly better than some chimp of the population.
C23_Witness ==
    /\ chPc = "loop"
    /\ previous # <<>>
    /\ \E i, k \in 1..Len(population) :
          /\ Moved(i)
          /\ DLt(leaders.attacker.fitness, population[k].fitness)

\* The four leaders from best to worst.
LeaderRanks == <<leaders.attacker, leaders.barrier, leaders.chaser, leaders.driver>>

\* A leader slot that holds a copy of an individual, not the seeded sentinel.
RealLeader(l) == l.chromosome # <<>>

\* C24: in every state of runChoaAlgorithm the leader fitnesses are ordered
\* Attacker <= Barrier <= Chaser <= Driver, and strictly so between any two
\* leaders that both hold a real individual.
C24_LeaderOrder ==
    \A i, j \in 1..4 :
        (i < j) =>
            /\ DLeq(LeaderRanks[i].fitness, LeaderRanks[j].fitness)
            /\ (RealLeader(LeaderRanks[i]) /\ RealLeader(LeaderRanks[j])
                    => DLt(LeaderRanks[i].fitness, LeaderRanks[j].fitness))

\* A ranking has left a real individual in each of the four slots.
C24_Witness ==
    /\ chPc = "loop"
    /\ \A i \in 1..4 : RealLeader(LeaderRanks[i])

\* C25: after the initial evaluateFitness pass over a population of at
\* least four individuals no leader slot still holds the seeded sentinel:
\* each holds a copy of a real individual with taskCount genes.
C25_SentinelSuperseded ==
    (chPc = "loop" /\ previous = <<>> /\ Len(population) >= 4) =>
        \A i \in 1..4 :
            /\ LeaderRanks[i] # Sentinel
            /\ Len(LeaderRanks[i].chromosome) = taskCount

\* Barrier, chaser or driver still holds the sentinel.
SlotUnfilled ==
    \E l \in {leaders.barrier, leaders.chaser, leaders.driver} : l.chromosome = <<>>

\* Every gene of the population and of the attacker is an integer of
\* 0..workerCount - 1.
GenesInRange ==
    /\ \A i \in 1..Len(population) : \A j \in 1..Len(population[i].chromosome) :
          population[i].chromosome[j] \in 0..(workerCount - 1)
    /\ \A j \in 1..Len(leaders.attacker.chromosome) :
          leaders.attacker.chromosome[j] \in 0..(workerCount - 1)

\* A step of an iteration run with a slot unfilled: updatePositions leaves
\* the population as it is, the ranking that ends the iteration leaves every
\* chimp with the genes and the fitness it had when the iteration began, and
\* the genes stay in range.
StalledStep ==
    (chPc \in {"update", "rank"} /\ previous # <<>> /\ SlotUnfilled) =>
        /\ (chPc = "update" => population' = population)
        /\ (chPc = "rank" => population' = previous)
        /\ GenesInRange'

\* C32: in an iteration of runChoaAlgorithm in which barrier, chaser or
\* driver still holds the sentinel with no genes, updatePositions accepts no
\* move: every chimp has the same genes and fitness after the iteration as
\* before, and no gene that is not an integer of 0..workerCount - 1 enters
\* the population or the attacker.
C32_StallWhileSlotUnfilled == [][StalledStep]_vars

\* applyOBL has just returned.
AfterApplyOBL == chPc = "rank" /\ previous = <<>> /\ useOBL

\* applyOBL's combined array: the primary population, then the opposites.
Combined == oblPrimary \o oblOpposite

\* The number of elements of a sequence equal to x.
Occurrences(seq, x) == Cardinality({i \in 1..Len(seq) : seq[i] = x})

\* C26: applyOBL returns exactly population.length individuals, each taken
\* from the union of the primary population and its opposites (no individual
\* more often than the union holds it), each with its evaluated fitness,
\* sorted ascending by fitness, and none of them worse than an individual of
\* the union that was not returned.
C26_ApplyOBLMergeTruncate ==
    AfterApplyOBL =>
        /\ Len(population) = Len(oblPrimary)
        /\ \A i \in 1..Len(population) :
              /\ Occurrences(population, population[i]) <= Occurrences(Combined, population[i])
              /\ population[i].fitness = CalculateFitness(population[i].chromosome, tasks)
              /\ (i > 1 => DLeq(population[i - 1].fitness, population[i].fitness))
        /\ \A k \in 1..Len(Combined) :
              (Occurrences(Combined, Combined[k]) > Occurrences(population, Combined[k]))
                  => \A i \in 1..Len(population) :
                        DLeq(population[i].fitness, Combined[k].fitness)

\* applyOBL kept an opposite individual and a primary one, and dropped a
\* strictly worse individual.
C26_Witness ==
    /\ AfterApplyOBL
    /\ \E i, j \in 1..Len(population) :
          /\ Occurrences(oblPrimary, population[i]) = 0
          /\ Occurrences(oblOpposite, population[j]) = 0
    /\ \E k \in 1..Len(Combined) :
          /\ Occurrences(population, Combined[k]) = 0
          /\ DLt(population[Len(population)].fitness, Combined[k].fitness)

\* Every individual of the population has been through calculateFitness.
Evaluated == chPc \notin {"idle", "evaluate"}

\* The execution time calculateFitness charges for a task of the given
\* weight: the cloudlet length over the rate of the weight's tier.
TierTime(weight) ==
    IF weight = "ringan" THEN DQuot(CloudletLength, 400)
    ELSE IF weight = "berat" THEN DQuot(CloudletLength, 600)
    ELSE DQuot(CloudletLength, 500)

\* The load of worker w after the tasks 1..i: every task adds its tier time
\* to the worker it is assigned to and nothing to the others.
RECURSIVE AssignedTime(_, _, _)
AssignedTime(chromosome, w, i) ==
    IF i = 0 THEN DZero
    ELSE DAdd(AssignedTime(chromosome, w, i - 1),
              IF GeneAt(chromosome, i) = w THEN TierTime(tasks[i]) ELSE DZero)

\* The loads of the workers that have at least one task.
AssignedLoads(chromosome) ==
    {AssignedTime(chromosome, GeneAt(chromosome, i), Len(tasks)) : i \in 1..Len(tasks)}

\* C27 as stated: the execution time of a task is the cloudlet length over
\* the processing rate of the worker the task is assigned to, so that two
\* tasks assigned to the same worker are charged the same execution time.
C27_ExecTimeByWorker ==
    Evaluated =>
        \A k \in 1..Len(population) :
            \A i, j \in 1..Len(tasks) :
                (GeneAt(population[k].chromosome, i) = GeneAt(population[k].chromosome, j))
                    => (TierTime(tasks[i]) = TierTime(tasks[j]))

\* C27 (amended): the execution time of task i is the cloudlet length over
\* the rate of the task's weight tier (400 ringan, 500 sedang, 600 berat,
\* 500 otherwise) whatever the worker; it is added to the load of the worker
\* gene_i, makespan is the largest load of a worker that has a task, and
\* the fitness is makespan + totalCost (-Infinity for an empty task list).
C27_ExecTimeByTier ==
    Evaluated =>
        \A k \in 1..Len(population) :
            population[k].fitness =
                IF tasks = <<>> THEN MinusInfinity
                ELSE DAdd(DMax(AssignedLoads(population[k].chromosome)),
                          TotalCost(population[k].chromosome, tasks))

\* An evaluated individual has two tasks of different tiers on one worker
\* and a task on another worker.
C27_Witness ==
    /\ Evaluated
    /\ \E k \in 1..Len(population) :
          \E i, j, l \in 1..Len(tasks) :
              /\ GeneAt(population[k].chromosome, i) = GeneAt(population[k].chromosome, j)
              /\ TierTime(tasks[i]) # TierTime(tasks[j])
              /\ GeneAt(population[k].chromosome, l) # GeneAt(population[k].chromosome, i)

\* ------------------------------------------------------------------------
\* Properties of calcFitness (SpecGA)
\* ------------------------------------------------------------------------
\* The workers the genes give a task to.
UsedWorkers(genes) == {genes[i] : i \in 1..Len(genes)}

\* The chromosomes of the population carry the fitness computeFitness gave them.
FitnessComputed == gaPc \notin {"idle", "compute"}

One == <<1, 1>>

\* C31: the fitness calcFitness gives a non-empty chromosome is
\* 1 / (max - min + 1) with max and min the greatest and the least number of
\* tasks among the workers that have a task; it lies in (0, 1], and it is 1
\* for a chromosome that gives all its tasks to one worker.
C31_FitnessOverUsedWorkers ==
    FitnessComputed =>
        \A i \in 1..Len(chromosomes) :
            LET genes == chromosomes[i].genes
                fitness == chromosomes[i].fitness
            IN  Len(genes) > 0 =>
                    /\ \E hi, lo \in UsedWorkers(genes) :
                          /\ \A w \in UsedWorkers(genes) :
                                /\ Occurrences(genes, w) <= Occurrences(genes, hi)
                                /\ Occurrences(genes, lo) <= Occurrences(genes, w)
                          /\ fitness = <<1, Occurrences(genes, hi) - Occurrences(genes, lo) + 1>>
                    /\ FGt(fitness, ZeroFitness)
                    /\ FLeq(fitness, One)
                    /\ (Cardinality(UsedWorkers(genes)) = 1 => FEq(fitness, One))

\* A population, its fitness computed, with a chromosome that gives its three
\* tasks to one of two workers (fitness 1) and a chromosome that gives two
\* tasks to one worker and one to the other (fitness below 1).
C31_Witness ==
    /\ FitnessComputed
    /\ taskCount = 3
    /\ \E i, j \in 1..Len(chromosomes) :
          /\ Cardinality(UsedWorkers(chromosomes[i].genes)) = 1
          /\ FEq(chromosomes[i].fitness, One)
          /\ Cardinality(UsedWorkers(chromosomes[j].genes)) = 2
          /\ FLt(chromosomes[j].fitness, One)

\* ------------------------------------------------------------------------
\* Properties of the runs of both drivers (SpecRuns)
\* ------------------------------------------------------------------------
\* The driver has returned.
Returned == gaPc \in {"done", "obl"} \/ chPc = "done"

\* A driver that has returned has executed its whole budget: runGA as many
\* generations as maxIterations (one entry of the history per generation),
\* runChoaAlgorithm as many rounds as iterations.
BudgetSpent ==
    /\ (gaPc \in {"done", "obl"} =>
            iteration = maxIterations /\ Len(bestHistory) = maxIterations)
    /\ (chPc = "done" => iter = iterations)

FirstIteration == chPc = "schedule" /\ iter = 1
LastIteration == chPc = "schedule" /\ iter >= 1 /\ iter = iterations

\* f starts at 2 and is 0 in the last iteration executed.
DecayEnds ==
    /\ (FirstIteration => coefficients.f = 2 * Milli)
    /\ (LastIteration => coefficients.f = 0)

\* From one iteration to the next f falls by the amount it fell the first time.
DecayStep ==
    (iter >= 1 /\ iter' = iter + 1) =>
        (coefficients.f - coefficients'.f
            = 2 * Milli - UpdateFandCoefficients(1, iterations).f)

\* C28: over the iterations of a run the coefficient f starts at 2 in the
\* first iteration, decreases by the same amount each iteration, and
\* reaches 0 in the last iteration executed.
C28_DecaySchedule == [] DecayEnds /\ [][DecayStep]_vars

\* ------------------------------------------------------------------------
\* Properties of calculateFitness (SpecFitness)
\* ------------------------------------------------------------------------
\* Both individuals carry the fitness calculateFitness gave them.
Measured == chPc = "measured"

\* The distance between two doubles of nearby magnitude, in units of 2^-49
\* (saturated where the leading limbs differ by more than one).
DGap(a, b) ==
    IF Abs(a[1] - b[1]) > 1 THEN 2147483647
    ELSE Abs((a[1] - b[1]) * Limb + (a[2] - b[2]))

\* k * 2^-52 * x in units of 2^-49, rounded down.
Tolerance(k, x) == (k * (x[1] \div 524288)) \div 8

\* C30 as stated: for a fixed task list the totalCost calculateFitness
\* computes is the same for every chromosome, so the order of two
\* individuals by fitness is their order by makespan.
C30_CostIndependent ==
    Measured =>
        \A i, j \in 1..2 :
            /\ TotalCost(population[i].chromosome, tasks)
                  = TotalCost(population[j].chromosome, tasks)
            /\ DLt(population[i].fitness, population[j].fitness)
                  <=> DLt(Makespan(population[i].chromosome, tasks),
                          Makespan(population[j].chromosome, tasks))

\* C30 (amended): for a list of n tasks the totalCost of two chromosomes is
\* the same up to rounding (they differ by at most n * 2^-52 times the
\* totalCost), and of two individuals whose makespans differ by more than
\* (n + 1) * 2^-52 times the fitness the one of lower makespan has the lower
\* fitness.
C30_CostIndependentUpToRounding ==
    Measured =>
        \A i, j \in 1..2 :
            LET costI == TotalCost(population[i].chromosome, tasks)
                costJ == TotalCost(population[j].chromosome, tasks)
                spanI == Makespan(population[i].chromosome, tasks)
                spanJ == Makespan(population[j].chromosome, tasks)
            IN  /\ DGap(costI, costJ) <= Tolerance(Len(tasks), costJ)
                /\ (/\ DLt(spanI, spanJ)
                    /\ DGap(spanI, spanJ) > Tolerance(Len(tasks) + 1, population[j].fitness))
                       => DLt(population[i].fitness, population[j].fitness)

\* Two measured individuals whose totalCost differs in the last place, the
\* one of clearly lower makespan having the lower fitness.
C30_Witness ==
    /\ Measured
    /\ TotalCost(population[1].chromosome, tasks) # TotalCost(population[2].chromosome, tasks)
    /\ DLt(Makespan(population[1].chromosome, tasks), Makespan(population[2].chromosome, tasks))
    /\ DGap(Makespan(population[1].chromosome, tasks), Makespan(population[2].chromosome, tasks))
          > Tolerance(Len(tasks) + 1, population[2].fitness)
    /\ DLt(population[1].fitness, population[2].fitness)

\* ------------------------------------------------------------------------
\* Properties of geneticAlgorithm on the heap (SpecLegacy)
\* ------------------------------------------------------------------------
\* The caller's individuals and the contents of their arrays are what they
\* were at the call.
CallerUnchanged ==
    /\ objects = beforeCall.objects
    /\ \A r \in CallerRefs : heapArrays[r] = beforeCall.arrays[r]

\* C29: geneticAlgorithm(population, iterations) leaves the caller's
\* population as it was at the call (position, velocity and fitness of every
\* individual), and the array it returns is no array of a caller's
\* individual and no array of a chromosome of the working population.
C29_NoEffectOnCaller ==
    (gaPc # "idle") =>
        /\ CallerUnchanged
        /\ (gaPc = "done" => gaResult \notin CallerRefs \cup WorkingRefs)

\* The call has returned, after at least one generation, an array with the
\* genes of the best chromosome of the working population, a mutation having
\* given the run a gene no caller's individual had.
C29_Witness ==
    /\ gaPc = "done"
    /\ iteration >= 1
    /\ heapArrays[gaResult].elems = GenesOf(heapArrays, chromosomes[1])
    /\ \E i \in 1..Len(chromosomes) : \E j \in 1..taskCount :
          GenesOf(heapArrays, chromosomes[i])[j] \notin GeneValues

\* ------------------------------------------------------------------------
\* Properties of the Chromosome class (SpecObj)
\* ------------------------------------------------------------------------
\* What the getters of an object return: genes, fitness and velocity.
ObjView(arrs, o) ==
    [genes |-> arrs[o.genes], fitness |-> o.fitness, velocity |-> arrs[o.velocity]]

\* The last call was getGene or setGene with an index outside [0, length).
GeneAccessOutOfRange ==
    /\ calls > 0
    /\ lastCall.op \in {"getGene", "setGene"}
    /\ lastCall.index \notin
          0..(Len(GenesOf(beforeCall.arrays, beforeCall.objects[lastCall.target])) - 1)

\* C12: getGene and setGene with an index outside [0, length) fail with an
\* out-of-range error and leave the genes of the chromosome as they were.
C12_GeneAccessBounds ==
    GeneAccessOutOfRange =>
        /\ lastCall.threw
        /\ heapArrays[objects[lastCall.target].genes] =
              beforeCall.arrays[beforeCall.objects[lastCall.target].genes]

\* C13: clone() returns a chromosome with the id, genes, fitness and
\* velocity of the original, and once the clone exists a setGene, setFitness
\* or setVelocity on one of the two leaves the genes, fitness and velocity of
\* the other as they were.
C13_CloneIndependence ==
    (calls > 0) =>
        /\ (lastCall.op = "clone" =>
              /\ objects.clone.id = objects.original.id
              /\ GenesOf(heapArrays, objects.clone) = GenesOf(heapArrays, objects.original)
              /\ objects.clone.fitness = objects.original.fitness
              /\ VelocityOf(heapArrays, objects.clone) =
                    VelocityOf(heapArrays, objects.original))
        /\ ((objects.clone # Null /\ lastCall.op \in {"setGene", "setFitness", "setVelocity"}) =>
              \A o \in {"original", "clone"} \ {lastCall.target} :
                  ObjView(heapArrays, objects[o]) =
                      ObjView(beforeCall.arrays, beforeCall.objects[o]))

\* After clone(), a gene of the clone was overwritten and the two
\* chromosomes now differ in genes and in fitness.
C13_Witness ==
    /\ calls > 0
    /\ objects.clone # Null
    /\ lastCall.op = "setGene"
    /\ lastCall.target = "clone"
    /\ lastCall.index \in 0..(Len(GenesOf(heapArrays, objects.clone)) - 1)
    /\ GenesOf(heapArrays, objects.clone) # GenesOf(heapArrays, objects.original)
    /\ objects.clone.fitness # objects.original.fitness

\* ------------------------------------------------------------------------
\* Properties of the broker (SpecBroker)
\* ------------------------------------------------------------------------
\* C14: between start-up (or a /reset) and the next /reset the optimizer is
\* invoked at most once, whatever the interleaving of the /schedule handlers,
\* and all dispatches of the session use the vector that invocation returned.
C14_OptimizerOncePerSession ==
    /\ \A i, j \in 1..Len(optimizerRuns) :
          (i # j) => (optimizerRuns[i] # optimizerRuns[j])
    /\ \A i, j \in 1..Len(dispatches) :
          (dispatches[i].session = dispatches[j].session) =>
              (dispatches[i].version = dispatches[j].version)

\* Handler h got a network failure from its worker in the current session.
FailedDispatch(h) ==
    /\ handlers[h].pc = "done"
    /\ handlers[h].status = 500
    /\ handlers[h].session = session

\* No task is sent twice within a session, and currentIndex stays past the
\* task of every failed dispatch of the session.
NoRedispatch ==
    /\ \A i, j \in 1..Len(dispatches) :
          (i # j /\ dispatches[i].session = dispatches[j].session) =>
              (dispatches[i].task # dispatches[j].task)
    /\ \A h \in 1..Len(handlers) :
          FailedDispatch(h) => (currentIndex > handlers[h].task)

\* The step in which a handler learns that its dispatch failed answers with
\* an error and changes neither currentIndex, completedTasks nor the
\* timing and cost accumulators; these change only when a worker's answer
\* is recorded or on /reset.
FailureStep ==
    /\ \A h \in 1..Len(handlers) :
          (handlers[h].pc = "awaitWorker" /\ handlers'[h].pc = "done"
                                          /\ handlers'[h].status # 200) =>
              /\ handlers'[h].status = 500
              /\ currentIndex' = currentIndex
              /\ metrics' = metrics
              /\ dispatches' = dispatches
    /\ (metrics' # metrics) =>
          \/ session' # session
          \/ \E h \in 1..Len(handlers) :
                handlers[h].pc = "awaitWorker" /\ handlers'[h].status = 200

\* C15: a failed dispatch of task i is answered with an error, task i is
\* not dispatched again before a /reset (currentIndex stays advanced past
\* i), and the failed round leaves completedTasks and the timing and cost
\* accumulators as they were.
C15_NoRetryOnFailure == [] NoRedispatch /\ [][FailureStep]_vars

\* The dispatch of task 0 failed, and in the same session the next request
\* was given task 1, which completed.
C15_Witness ==
    \E h, k \in 1..Len(handlers) :
        /\ FailedDispatch(h)
        /\ handlers[h].task = 0
        /\ handlers[k].pc = "done"
        /\ handlers[k].status = 200
        /\ handlers[k].session = session
        /\ handlers[k].task = 1
        /\ completedTasks = 1

\* The session variables of the broker.
SessionState ==
    <<currentIndex, completedTasks, makespanStart, makespanEnd, abcMapping, workerSpecs,
      startTimes, finishTimes, executionTimes, waitingTimes, totalCost,
      executionTimeByWorker, cpuUsages>>

\* The task indices dispatched in session s, in the order of their dispatch.
DispatchedIn(s) ==
    LET Pick(d) == d.session = s
    IN  [k \in 1..Len(SelectSeq(dispatches, Pick)) |-> SelectSeq(dispatches, Pick)[k].task]

\* In every session the tasks are dispatched in the order 0, 1, 2, ..., and
\* currentIndex is at most tasks.length.
DispatchedInOrder ==
    /\ \A s \in 0..session : \A k \in 1..Len(DispatchedIn(s)) : DispatchedIn(s)[k] = k - 1
    /\ currentIndex <= Len(BrokerTasks)

\* A /schedule request that arrives when tasks.length tasks have been
\* dispatched in the session is answered 400, dispatches nothing and leaves
\* the session variables as they are.
LateRequestStep ==
    \A h \in 1..Len(handlers) :
        (/\ handlers[h].pc = "waiting"
         /\ handlers'[h].pc # "waiting"
         /\ Len(DispatchedIn(session)) = Len(BrokerTasks)) =>
            /\ handlers'[h].pc = "done"
            /\ handlers'[h].status = 400
            /\ dispatches' = dispatches
            /\ SessionState' = SessionState

\* C33: for any interleaving of /schedule requests within one session the
\* task indices dispatched are 0, 1, 2, ... in increasing order with no index
\* dispatched twice, currentIndex never exceeds tasks.length, and once
\* tasks.length tasks have been dispatched every further /schedule request
\* is answered 400 without a dispatch and without a change of session state.
C33_DispatchedOnceInOrder == [] DispatchedInOrder /\ [][LateRequestStep]_vars

\* Two requests of session 0 were in flight together (the optimizer ran
\* twice), every task of the file was dispatched in that session, and a
\* later request was answered 400.
C33_Witness ==
    /\ session = 0
    /\ Len(DispatchedIn(0)) = Len(BrokerTasks)
    /\ \E k \in 1..Len(dispatches) : dispatches[k].version = 2
    /\ \E h \in 1..Len(handlers) : handlers[h].pc = "done" /\ handlers[h].status = 400

\* The session variables as they are at start-up.
StartUpState ==
    <<0, 0, NullTime, NullTime, <<>>, <<>>, <<>>, <<>>, <<>>, <<>>, 0,
      [w \in 1..Len(workerSpecifications) |-> 0], <<>>>>

\* A /reset that completes while no /schedule request is in flight leaves
\* every session variable with its start-up value.
ResetStep ==
    (/\ session' = session + 1
     /\ \A h \in 1..Len(handlers) : handlers[h].pc \in {"waiting", "done"}) =>
        SessionState' = StartUpState

\* C34: after a /reset request that completes with no request in flight,
\* every session variable of the broker (currentIndex, completedTasks,
\* makespanStart, makespanEnd, the cached mapping, the worker specs, the
\* start, finish, execution and waiting time arrays, totalCost, the
\* per-worker execution accumulators and the collected CPU-usage samples)
\* has the value it had at start-up.
C34_ResetRestoresStartUp == [][ResetStep]_vars

====
